---------------------------- MODULE Spec2Model ----------------------------
(***************************************************************************)
(* The JSON-file record store of app/src/server/db.ts (class JsonDb): one  *)
(* file per project holding {project, lists[], items[]}, a write queue     *)
(* built from chained promises, and the list/item operations that keep     *)
(* `order` dense inside each container.                                    *)
(*                                                                         *)
(* Representation.  Ids are positive integers handed out by counters       *)
(* (crypto.randomUUID never repeats); Null (0) is JavaScript's null, and   *)
(* as a sort key it is the empty string of `listId ?? ""`, which           *)
(* localeCompare puts before every id.  Strings (titles, labels) are       *)
(* sequences of one-character strings so that trim() and toLowerCase()     *)
(* are computed.  Records keep the fields the store's logic reads: id,     *)
(* projectId, listId, title/label, order.  description, createdAt and      *)
(* updatedAt are payload that no guard or ordering step of the operations  *)
(* modelled here reads (coerceProjectFile consults updatedAt only between  *)
(* two items with equal listId and equal order).  A record read from a     *)
(* file that was edited by hand may lack `order` (the field is then absent *)
(* from the record) and may carry `updatedAt`, which coercion passes on;   *)
(* the documents the operations build carry none, their timestamps being   *)
(* followed apart, in `stamps`, against `clock`.                           *)
(***************************************************************************)
EXTENDS Integers, Sequences, FiniteSets, TLC

\* ------------------------------------------------------------------ bounds
\* Project ids the store can mint (createProject, import on a collision)
\* under the single-caller specification; the concurrent one has one more.
MaxProj == 1
\* List ids the store can mint (createList, duplicateList).
MaxListIds == 2
\* Item ids the store can mint (createItem, duplicateList).
MaxItemIds == 2
\* Calls that may be pending at once in the concurrent specification.
MaxPending == 2
\* Size of the burst of concurrent createItem calls.
NConc == 3

\* The sentinel order of moveItem, Number.MAX_SAFE_INTEGER (2^53 - 1): the
\* largest integer TLC represents stands for it; only its being above every
\* order in a document is used.
MaxSafeInteger == 2147483647

Null == 0
\* The empty string as a list id: not null, yet falsy where the code tests
\* `it.listId &&` or `input.listId &&`.
EmptyId == -1
\* A list id that belongs to no project.
UnknownList == MaxListIds + 1

ProjIds == 1..MaxProj
StoreProjects == MaxProj + 1
FileIds == 1..StoreProjects
ListIdPool == 1..MaxListIds
ItemIdPool == 1..MaxItemIds

\* ----------------------------------------------------------------- strings
Str_a == <<"a">>
Blank == <<" ">>
UntitledProject == <<"U","n","t","i","t","l","e","d"," ","p","r","o","j","e","c","t">>
UntitledList == <<"U","n","t","i","t","l","e","d"," ","l","i","s","t">>
ListPrefix == <<"L","i","s","t"," ">>
ItemPrefix == <<"I","t","e","m"," ">>
CopyOpen == <<" ","(","c","o","p","y">>
CopyClose == <<")">>

IsSpace(ch) == ch = " "

RECURSIVE TrimStart(_)
TrimStart(s) ==
    IF s # <<>> /\ IsSpace(Head(s)) THEN TrimStart(Tail(s)) ELSE s

RECURSIVE TrimEnd(_)
TrimEnd(s) ==
    IF s # <<>> /\ IsSpace(s[Len(s)]) THEN TrimEnd(SubSeq(s, 1, Len(s) - 1)) ELSE s

\* String.prototype.trim
Trim(s) == TrimEnd(TrimStart(s))

LowerChar(ch) ==
    CASE ch = "A" -> "a"
      [] ch = "B" -> "b"
      [] ch = "U" -> "u"
      [] ch = "L" -> "l"
      [] ch = "I" -> "i"
      [] OTHER -> ch

\* String.prototype.toLowerCase
ToLowerCase(s) == [i \in 1..Len(s) |-> LowerChar(s[i])]

DigitChar(d) ==
    CASE d = 0 -> "0" [] d = 1 -> "1" [] d = 2 -> "2" [] d = 3 -> "3" [] d = 4 -> "4"
      [] d = 5 -> "5" [] d = 6 -> "6" [] d = 7 -> "7" [] d = 8 -> "8" [] OTHER -> "9"

RECURSIVE NumStr(_)
\* `${n}` for a non-negative integer
NumStr(n) == IF n < 10 THEN <<DigitChar(n)>> ELSE NumStr(n \div 10) \o <<DigitChar(n % 10)>>

\* ---------------------------------------------------------------- documents
Range(s) == {s[i] : i \in DOMAIN s}

\* Array.prototype.sort((a, b) => a.order - b.order): a stable sort, so an
\* element's place is the number of elements that compare smaller, or equal
\* and earlier in the array.
OrderBefore(s, j, i) ==
    \/ s[j].order < s[i].order
    \/ s[j].order = s[i].order /\ j < i

SortByOrder(s) ==
    LET place(i) == Cardinality({j \in DOMAIN s : OrderBefore(s, j, i)}) + 1
    IN  [k \in 1..Len(s) |-> s[CHOOSE i \in DOMAIN s : place(i) = k]]

\* r?.f is not undefined
Has(r, f) == f \in DOMAIN r

\* Number.isFinite(Number(r?.order)) ? Number(r.order) : idx
OrderOr(r, idx) == IF Has(r, "order") THEN r.order ELSE idx

\* The updatedAt a record carries, as coercion passes it on and compares it.
Stamp(r) == IF Has(r, "updatedAt") THEN [updatedAt |-> r.updatedAt] ELSE <<>>
UpdatedAt(r) == IF Has(r, "updatedAt") THEN r.updatedAt ELSE 0

\* The key `listId ?? ""` under localeCompare: null is the empty string,
\* and so is the empty string.
ListKey(listId) == IF listId = EmptyId THEN Null ELSE listId

\* The comparator with equal elements taken in reverse array order, as
\* an unstable sort may leave them.
CoerceBefore_unstable(s, j, i) ==
    \/ ListKey(s[j].listId) < ListKey(s[i].listId)
    \/ /\ ListKey(s[j].listId) = ListKey(s[i].listId)
       /\ \/ s[j].order < s[i].order
          \/ /\ s[j].order = s[i].order
             /\ \/ UpdatedAt(s[j]) < UpdatedAt(s[i])
                \/ UpdatedAt(s[j]) = UpdatedAt(s[i]) /\ j > i

\* The item comparator of coerceProjectFile under a stable sort: listId
\* key, then order, then updatedAt, then the place in the array.
CoerceBefore(s, j, i) ==
    \/ ListKey(s[j].listId) < ListKey(s[i].listId)
    \/ /\ ListKey(s[j].listId) = ListKey(s[i].listId)
       /\ \/ s[j].order < s[i].order
          \/ /\ s[j].order = s[i].order
             /\ \/ UpdatedAt(s[j]) < UpdatedAt(s[i])
                \/ UpdatedAt(s[j]) = UpdatedAt(s[i]) /\ j < i

SortItemsCoerce(s) ==
    LET place(i) == Cardinality({j \in DOMAIN s : CoerceBefore(s, j, i)}) + 1
    IN  [k \in 1..Len(s) |-> s[CHOOSE i \in DOMAIN s : place(i) = k]]

OrDefault(s, d) == IF s = <<>> THEN d ELSE s

\* coerceProjectFile on a parsed document that carries a project id.
coerceProjectFile(input) ==
    LET projectId == input.project.id
        title == Trim(input.project.title)
        normalizedLists ==
            [idx \in 1..Len(input.lists) |->
                [id |-> input.lists[idx].id,
                 projectId |-> projectId,
                 title |-> OrDefault(Trim(input.lists[idx].title), ListPrefix \o NumStr(idx)),
                 order |-> OrderOr(input.lists[idx], idx - 1)] @@ Stamp(input.lists[idx])]
        listIds == {normalizedLists[i].id : i \in DOMAIN normalizedLists}
        normalizedItems ==
            [idx \in 1..Len(input.items) |->
                [id |-> input.items[idx].id,
                 projectId |-> projectId,
                 listId |-> IF input.items[idx].listId \notin {Null, EmptyId}
                               /\ input.items[idx].listId \notin listIds
                            THEN Null ELSE input.items[idx].listId,
                 label |-> OrDefault(Trim(input.items[idx].label), ItemPrefix \o NumStr(idx)),
                 order |-> OrderOr(input.items[idx], idx - 1)] @@ Stamp(input.items[idx])]
    IN  [project |-> [id |-> projectId, title |-> OrDefault(title, UntitledProject)],
         lists |-> SortByOrder(normalizedLists),
         items |-> SortItemsCoerce(normalizedItems)]

\* normalizeListOrders: sorts data.lists in place and renumbers 0..n-1.
normalizeListOrders(data) ==
    LET sorted == SortByOrder(data.lists)
    IN  [data EXCEPT !.lists = [k \in 1..Len(sorted) |-> [sorted[k] EXCEPT !.order = k - 1]]]

ItemIndexes(items, listId) == {i \in DOMAIN items : items[i].listId = listId}

\* normalizeItemOrders without the renumbering pass (a store that forgets it).
normalizeItemOrders_skip(data, listId) == data

\* normalizeItemOrders: the members of one container, sorted by order
\* (stable), get 0..n-1; data.items itself keeps its sequence.
normalizeItemOrders(data, listId) ==
    LET S == ItemIndexes(data.items, listId)
        rank(i) == Cardinality({j \in S : OrderBefore(data.items, j, i)})
    IN  [data EXCEPT !.items =
            [i \in DOMAIN data.items |->
                IF i \in S THEN [data.items[i] EXCEPT !.order = rank(i)] ELSE data.items[i]]]

Max(S) == CHOOSE x \in S : \A y \in S : y <= x
Min(S) == CHOOSE x \in S : \A y \in S : x <= y

ListOrders(data) == {data.lists[i].order : i \in DOMAIN data.lists}
ItemOrders(data, listId) == {data.items[i].order : i \in ItemIndexes(data.items, listId)}

HasList(data, listId) == \E i \in DOMAIN data.lists : data.lists[i].id = listId
HasItem(data, itemId) == \E i \in DOMAIN data.items : data.items[i].id = itemId
\* Array.prototype.find: the first match
FindList(data, listId) == Min({i \in DOMAIN data.lists : data.lists[i].id = listId})
FindItem(data, itemId) == Min({i \in DOMAIN data.items : data.items[i].id = itemId})


\* ------------------------------------------------- the mutation functions
\* Each models the function an operation hands to mutateProject: it returns
\* the error it throws ("none" when it returns) and the in-memory document
\* as it stands at that moment.
Return(data) == [err |-> "none", data |-> data]
Throw(msg, data) == [err |-> msg, data |-> data]

NoPatch == [has |-> FALSE, text |-> <<>>]
SetText(t) == [has |-> TRUE, text |-> t]

\* updateProject's function (db.ts 394-405); patch.title is trimmed first.
updateProjectFn(data, patch) ==
    IF patch.has /\ Trim(patch.text) = <<>>
    THEN Throw("Project title is required", data)
    ELSE Return(IF patch.has
                THEN [data EXCEPT !.project.title = Trim(patch.text)]
                ELSE data)

NextListOrder(data) == Max({-1} \cup ListOrders(data)) + 1

\* createList's function (db.ts 456-472); title was trimmed by the caller.
createListFn(data, projectId, title, newId) ==
    Return([data EXCEPT !.lists =
        Append(@, [id |-> newId, projectId |-> projectId, title |-> title,
                   order |-> NextListOrder(data)])])

RECURSIVE CopyTitle(_, _, _, _)
\* The while loop of duplicateList (db.ts 490-495).
CopyTitle(base, existingTitles, title, n) ==
    IF ToLowerCase(title) \in existingTitles
    THEN CopyTitle(base, existingTitles, base \o CopyOpen \o <<" ">> \o NumStr(n) \o CopyClose, n + 1)
    ELSE title

\* The indexes of one container's members, sorted by order (stable).
SortedIndexes(items, S) ==
    LET place(i) == Cardinality({j \in S : OrderBefore(items, j, i)}) + 1
    IN  [k \in 1..Cardinality(S) |-> CHOOSE i \in S : place(i) = k]

\* duplicateList that looks the new title up among the titles as they are
\* written, capitals and all.
duplicateListFn_cased(data, projectId, listId, newId, firstItemId) ==
    IF ~HasList(data, listId) THEN Throw("List not found", data)
    ELSE
    LET src == data.lists[FindList(data, listId)]
        existingTitles == {Trim(data.lists[i].title) : i \in DOMAIN data.lists}
        base == Trim(OrDefault(src.title, UntitledList))
        title == CopyTitle(base, existingTitles, base \o CopyOpen \o CopyClose, 2)
        list == [id |-> newId, projectId |-> projectId, title |-> title,
                 order |-> NextListOrder(data)]
        srcItems == SortedIndexes(data.items, ItemIndexes(data.items, src.id))
        clones == [k \in 1..Len(srcItems) |->
                     [id |-> firstItemId + k - 1, projectId |-> projectId,
                      listId |-> newId, label |-> data.items[srcItems[k]].label,
                      order |-> data.items[srcItems[k]].order]]
        pushed == [data EXCEPT !.lists = Append(@, list), !.items = @ \o clones]
    IN  Return(normalizeItemOrders(pushed, newId))

\* duplicateList that copies the list record and none of its items.
duplicateListFn_shallow(data, projectId, listId, newId, firstItemId) ==
    IF ~HasList(data, listId) THEN Throw("List not found", data)
    ELSE
    LET src == data.lists[FindList(data, listId)]
        existingTitles == {ToLowerCase(Trim(data.lists[i].title)) : i \in DOMAIN data.lists}
        base == Trim(OrDefault(src.title, UntitledList))
        title == CopyTitle(base, existingTitles, base \o CopyOpen \o CopyClose, 2)
        list == [id |-> newId, projectId |-> projectId, title |-> title,
                 order |-> NextListOrder(data)]
    IN  Return([data EXCEPT !.lists = Append(@, list)])

\* duplicateList's function (db.ts 479-528); the clone's items take the
\* ids firstItemId, firstItemId + 1, ...
duplicateListFn(data, projectId, listId, newId, firstItemId) ==
    IF ~HasList(data, listId) THEN Throw("List not found", data)
    ELSE
    LET src == data.lists[FindList(data, listId)]
        existingTitles == {ToLowerCase(Trim(data.lists[i].title)) : i \in DOMAIN data.lists}
        base == Trim(OrDefault(src.title, UntitledList))
        title == CopyTitle(base, existingTitles, base \o CopyOpen \o CopyClose, 2)
        list == [id |-> newId, projectId |-> projectId, title |-> title,
                 order |-> NextListOrder(data)]
        srcItems == SortedIndexes(data.items, ItemIndexes(data.items, src.id))
        clones == [k \in 1..Len(srcItems) |->
                     [id |-> firstItemId + k - 1, projectId |-> projectId,
                      listId |-> newId, label |-> data.items[srcItems[k]].label,
                      order |-> data.items[srcItems[k]].order]]
        pushed == [data EXCEPT !.lists = Append(@, list), !.items = @ \o clones]
    IN  Return(normalizeItemOrders(pushed, newId))

\* updateList that assigns the patch without looking at its title.
updateListFn_lax(data, listId, patch) ==
    IF ~HasList(data, listId) THEN Throw("List not found", data)
    ELSE Return(IF patch.has
                THEN [data EXCEPT !.lists[FindList(data, listId)].title = Trim(patch.text)]
                ELSE data)

\* updateList's function (db.ts 536-551).
updateListFn(data, listId, patch) ==
    IF ~HasList(data, listId) THEN Throw("List not found", data)
    ELSE IF patch.has /\ Trim(patch.text) = <<>> THEN Throw("List title is required", data)
    ELSE Return(IF patch.has
                THEN [data EXCEPT !.lists[FindList(data, listId)].title = Trim(patch.text)]
                ELSE data)

\* deleteList that also drops the list's items (a cascading delete).
deleteListFn_cascade(data, listId) ==
    IF ~HasList(data, listId) THEN Throw("List not found", data)
    ELSE
    LET kept == [data EXCEPT
                    !.items = SelectSeq(@, LAMBDA it : it.listId # listId),
                    !.lists = SelectSeq(@, LAMBDA l : l.id # listId)]
    IN  Return(normalizeItemOrders(normalizeListOrders(kept), Null))

\* deleteList's function (db.ts 558-575).
deleteListFn(data, listId) ==
    IF ~HasList(data, listId) THEN Throw("List not found", data)
    ELSE
    LET loosened == [data EXCEPT
                        !.items = [i \in DOMAIN @ |->
                            IF @[i].listId = listId THEN [@[i] EXCEPT !.listId = Null] ELSE @[i]],
                        !.lists = SelectSeq(@, LAMBDA l : l.id # listId)]
    IN  Return(normalizeItemOrders(normalizeListOrders(loosened), Null))

\* The forEach counting positions from the end of listIdsInOrder.
AssignOrders_backwards(lists, listIdsInOrder) ==
    [i \in DOMAIN lists |->
        LET at == {k \in DOMAIN listIdsInOrder : listIdsInOrder[k] = lists[i].id}
        IN  IF at = {} THEN lists[i]
            ELSE [lists[i] EXCEPT !.order = Len(listIdsInOrder) - Max(at)]]

\* The forEach of reorderLists (db.ts 586-591): a named list takes the
\* zero-based position of its id; the last occurrence of an id wins.
AssignOrders(lists, listIdsInOrder) ==
    [i \in DOMAIN lists |->
        LET at == {k \in DOMAIN listIdsInOrder : listIdsInOrder[k] = lists[i].id}
        IN  IF at = {} THEN lists[i] ELSE [lists[i] EXCEPT !.order = Max(at) - 1]]

\* reorderLists that trusts the caller's positions and skips normalizeListOrders.
reorderListsFn_raw(data, listIdsInOrder) ==
    Return([data EXCEPT !.lists = AssignOrders(@, listIdsInOrder)])

\* reorderLists's function (db.ts 582-596).
reorderListsFn(data, listIdsInOrder) ==
    Return(normalizeListOrders([data EXCEPT !.lists = AssignOrders(@, listIdsInOrder)]))

\* The next order counted over the items of every container.
NextItemOrder_global(data, listId) ==
    Max({-1} \cup {data.items[i].order : i \in DOMAIN data.items}) + 1

NextItemOrder(data, listId) == Max({-1} \cup ItemOrders(data, listId)) + 1

\* createItem's function (db.ts 609-637); label was trimmed by the caller.
createItemFn(data, projectId, listId, label, newId) ==
    IF listId \notin {Null, EmptyId} /\ ~HasList(data, listId) THEN Throw("List not found", data)
    ELSE Return([data EXCEPT !.items =
            Append(@, [id |-> newId, projectId |-> projectId, listId |-> listId,
                       label |-> label, order |-> NextItemOrder(data, listId)])])

\* updateItem that assigns the patch to every item of the document.
updateItemFn_every(data, itemId, patch) ==
    IF ~HasItem(data, itemId) THEN Throw("Item not found", data)
    ELSE IF patch.has /\ Trim(patch.text) = <<>> THEN Throw("Item label is required", data)
    ELSE Return(IF patch.has
                THEN [data EXCEPT !.items =
                        [k \in DOMAIN @ |-> [@[k] EXCEPT !.label = Trim(patch.text)]]]
                ELSE data)

\* updateItem's function (db.ts 645-660).
updateItemFn(data, itemId, patch) ==
    IF ~HasItem(data, itemId) THEN Throw("Item not found", data)
    ELSE IF patch.has /\ Trim(patch.text) = <<>> THEN Throw("Item label is required", data)
    ELSE Return(IF patch.has
                THEN [data EXCEPT !.items[FindItem(data, itemId)].label = Trim(patch.text)]
                ELSE data)

\* deleteItem that empties the container the item was in.
deleteItemFn_sweep(data, itemId) ==
    IF ~HasItem(data, itemId) THEN Throw("Item not found", data)
    ELSE
    LET sourceListId == data.items[FindItem(data, itemId)].listId
        removed == [data EXCEPT !.items = SelectSeq(@, LAMBDA it : it.listId # sourceListId)]
    IN  Return(normalizeItemOrders(removed, sourceListId))

\* deleteItem's function (db.ts 667-676).
deleteItemFn(data, itemId) ==
    IF ~HasItem(data, itemId) THEN Throw("Item not found", data)
    ELSE
    LET sourceListId == data.items[FindItem(data, itemId)].listId
        removed == [data EXCEPT !.items = SelectSeq(@, LAMBDA it : it.id # itemId)]
    IN  Return(normalizeItemOrders(removed, sourceListId))

\* The clamp with the upper end one short: Math.min(len - 1, ...).
InsertAt_short(len, toIndex) ==
    LET low == IF len - 1 < toIndex THEN len - 1 ELSE toIndex
    IN  IF low < 0 THEN 0 ELSE low

\* Math.max(0, Math.min(len, Math.floor(toIndex))) for an integer toIndex.
InsertAt(len, toIndex) ==
    LET low == IF len < toIndex THEN len ELSE toIndex
    IN  IF low < 0 THEN 0 ELSE low

\* The destination pass with the comparator the other way round
\* ((a, b) => b.order - a.order).
RenumberDestination_descending(data, projectId, at, toListId, toIndex) ==
    LET others == {i \in DOMAIN data.items :
                      /\ data.items[i].projectId = projectId
                      /\ data.items[i].listId = toListId
                      /\ data.items[i].id # data.items[at].id}
        ascending == SortedIndexes(data.items, others)
        destItems == [k \in DOMAIN ascending |-> ascending[Len(ascending) + 1 - k]]
        insertAt == InsertAt(Len(destItems), toIndex)
        spliced == SubSeq(destItems, 1, insertAt) \o <<at>>
                     \o SubSeq(destItems, insertAt + 1, Len(destItems))
        pos(i) == CHOOSE k \in DOMAIN spliced : spliced[k] = i
    IN  [data EXCEPT !.items =
            [i \in DOMAIN @ |->
                IF i \in Range(spliced) THEN [@[i] EXCEPT !.order = pos(i) - 1] ELSE @[i]]]

\* The destination pass of moveItem (db.ts 704-720): the other members of
\* the destination sorted by order, the moved item spliced in at insertAt,
\* then everyone renumbered.  `at` is the moved item's index in data.items.
RenumberDestination(data, projectId, at, toListId, toIndex) ==
    LET others == {i \in DOMAIN data.items :
                      /\ data.items[i].projectId = projectId
                      /\ data.items[i].listId = toListId
                      /\ data.items[i].id # data.items[at].id}
        destItems == SortedIndexes(data.items, others)
        insertAt == InsertAt(Len(destItems), toIndex)
        spliced == SubSeq(destItems, 1, insertAt) \o <<at>>
                     \o SubSeq(destItems, insertAt + 1, Len(destItems))
        pos(i) == CHOOSE k \in DOMAIN spliced : spliced[k] = i
    IN  [data EXCEPT !.items =
            [i \in DOMAIN @ |->
                IF i \in Range(spliced) THEN [@[i] EXCEPT !.order = pos(i) - 1] ELSE @[i]]]

\* moveItem that looks the target list up only after it has detached the item.
moveItemFn_late(data, projectId, itemId, toListId, toIndex) ==
    IF ~HasItem(data, itemId) THEN Throw("Item not found", data)
    ELSE
    LET at == FindItem(data, itemId)
        fromListId == data.items[at].listId
        lifted == [data EXCEPT !.items[at].listId = toListId,
                               !.items[at].order = MaxSafeInteger]
        placed == RenumberDestination(lifted, projectId, at, toListId, toIndex)
    IN  IF toListId # Null /\ ~HasList(data, toListId) THEN Throw("List not found", lifted)
        ELSE Return(IF fromListId # toListId
                    THEN normalizeItemOrders(placed, fromListId)
                    ELSE placed)

\* moveItem's function (db.ts 685-729).
moveItemFn(data, projectId, itemId, toListId, toIndex) ==
    IF ~HasItem(data, itemId) THEN Throw("Item not found", data)
    ELSE IF toListId \notin {Null, EmptyId} /\ ~HasList(data, toListId) THEN Throw("List not found", data)
    ELSE
    LET at == FindItem(data, itemId)
        fromListId == data.items[at].listId
        lifted == [data EXCEPT !.items[at].listId = toListId,
                               !.items[at].order = MaxSafeInteger]
        placed == RenumberDestination(lifted, projectId, at, toListId, toIndex)
    IN  Return(IF fromListId # toListId
               THEN normalizeItemOrders(placed, fromListId)
               ELSE placed)


\* ------------------------------------------------------------ store state
VARIABLES
    files,      \* the projects directory: file id -> absent / partial / ok + document
    queue,      \* the closures chained on writeQueue and not yet settled, oldest first
    waiting,    \* createProject / import calls awaiting ensureInitialized before they enqueue
    tailErr,    \* how the promise in front of queue[1] settled: "none" or its rejection
    initState,  \* initPromise: "none" (null), "running", "done"
    last,       \* the most recently settled call: its error, and whether its own code raised it
    lastRead,   \* what the most recent read-only call observed
    nextProj,   \* ids minted so far, per kind (id() never repeats)
    nextList,
    nextItem,
    issued,     \* calls issued in the createItem burst
    parsed,     \* a document as JSON.parse gave it to coerceProjectFile
    returned,   \* the document coerceProjectFile returned for it
    clock,      \* the latest time nowIso() has returned
    stamps,     \* the updatedAt of the project, of its lists and of its items
    legacy      \* data/db.json and how far migrateLegacyDbIfNeeded has got with it

vars == <<files, queue, waiting, tailErr, initState, last, lastRead,
          nextProj, nextList, nextItem, issued, parsed, returned, clock, stamps, legacy>>

\* What the queue's steps leave alone.
aside == <<parsed, returned, clock, stamps, legacy>>

Absent == [st |-> "absent"]
Partial == [st |-> "partial"]
Stored(doc) == [st |-> "ok", doc |-> doc]

EmptyBoard(projectId, title) ==
    [project |-> [id |-> projectId, title |-> title], lists |-> <<>>, items |-> <<>>]
NoDoc == EmptyBoard(Null, <<>>)

MutateOps == {"updateProject", "createList", "duplicateList", "updateList", "deleteList",
              "reorderLists", "createItem", "updateItem", "deleteItem", "moveItem"}

Call(op, pid, arg) ==
    [op |-> op, pid |-> pid, arg |-> arg, pc |-> "queued",
     loaded |-> NoDoc, staged |-> NoDoc, target |-> pid, ids |-> <<>>]

\* The function each operation passes to mutateProject, applied to `data`;
\* nl and ni are the next list and item ids id() will return.
RunFn(c, data, nl, ni) ==
    CASE c.op = "updateProject" -> updateProjectFn(data, c.arg.patch)
      [] c.op = "createList"    -> createListFn(data, c.pid, c.arg.title, nl)
      [] c.op = "duplicateList" -> duplicateListFn(data, c.pid, c.arg.listId, nl, ni)
      [] c.op = "updateList"    -> updateListFn(data, c.arg.listId, c.arg.patch)
      [] c.op = "deleteList"    -> deleteListFn(data, c.arg.listId)
      [] c.op = "reorderLists"  -> reorderListsFn(data, c.arg.listIdsInOrder)
      [] c.op = "createItem"    -> createItemFn(data, c.pid, c.arg.listId, c.arg.label, ni)
      [] c.op = "updateItem"    -> updateItemFn(data, c.arg.itemId, c.arg.patch)
      [] c.op = "deleteItem"    -> deleteItemFn(data, c.arg.itemId)
      [] c.op = "moveItem"      -> moveItemFn(data, c.pid, c.arg.itemId, c.arg.toListId, c.arg.toIndex)

\* readProjectFile (db.ts 66-78): null for a missing file, a SyntaxError
\* from JSON.parse for a file caught while writeFile is rewriting it.
ReadProjectFile(file) ==
    CASE file.st = "absent"  -> [kind |-> "null", doc |-> NoDoc]
      [] file.st = "partial" -> [kind |-> "SyntaxError", doc |-> NoDoc]
      [] OTHER               -> [kind |-> "board", doc |-> coerceProjectFile(file.doc)]

\* mutateProject that starts from an empty board when the file is missing.
MutateOutcome_upsert(file, c, nl, ni) ==
    LET read == ReadProjectFile(file)
        data == IF read.kind = "null" THEN EmptyBoard(c.pid, UntitledProject) ELSE read.doc
    IN  IF read.kind = "SyntaxError"
        THEN [err |-> "SyntaxError", loaded |-> NoDoc, data |-> NoDoc]
        ELSE LET res == RunFn(c, data, nl, ni)
             IN  [err |-> res.err, loaded |-> data, data |-> res.data]

\* The closure of mutateProject up to its write (db.ts 96-98): the document
\* it loaded, the error it throws, the document in memory at that moment.
MutateOutcome(file, c, nl, ni) ==
    LET read == ReadProjectFile(file)
    IN  CASE read.kind = "null" ->
               [err |-> "Project not found", loaded |-> NoDoc, data |-> NoDoc]
          [] read.kind = "SyntaxError" ->
               [err |-> "SyntaxError", loaded |-> NoDoc, data |-> NoDoc]
          [] OTHER ->
               LET res == RunFn(c, read.doc, nl, ni)
               IN  [err |-> res.err, loaded |-> read.doc, data |-> res.data]

\* What a document's write adds to the id counters.
MintedLists(before, after) == Len(after.lists) - Len(SelectSeq(after.lists, LAMBDA l : HasList(before, l.id)))
MintedItems(before, after) == Len(after.items) - Len(SelectSeq(after.items, LAMBDA it : HasItem(before, it.id)))


\* ------------------------------------------------------------------ inputs
Titles == {Blank, <<" ", "a">>}
Patches == {NoPatch, SetText(Blank), SetText(<<"a", " ">>)}
ListArgs == ListIdPool
Containers == {Null} \cup ListIdPool
Indexes == (0 - 1)..MaxItemIds
IdSeqs == UNION {[1..n -> ListIdPool \cup {UnknownList}] : n \in 0..MaxListIds}

\* The calls of the operations built on mutateProject, and deleteProject.
QueuedCalls ==
    {Call("updateProject", p, [patch |-> x]) : p \in ProjIds, x \in Patches}
    \cup {Call("createList", p, [title |-> t]) : p \in ProjIds, t \in Titles}
    \cup {Call("duplicateList", p, [listId |-> l]) : p \in ProjIds, l \in ListArgs}
    \cup {Call("updateList", p, [listId |-> l, patch |-> x]) : p \in ProjIds, l \in ListArgs, x \in Patches}
    \cup {Call("deleteList", p, [listId |-> l]) : p \in ProjIds, l \in ListArgs}
    \cup {Call("reorderLists", p, [listIdsInOrder |-> s]) : p \in ProjIds, s \in IdSeqs}
    \cup {Call("createItem", p, [listId |-> l, label |-> t]) : p \in ProjIds, l \in Containers, t \in Titles}
    \cup {Call("updateItem", p, [itemId |-> i, patch |-> x]) : p \in ProjIds, i \in ItemIdPool, x \in Patches}
    \cup {Call("deleteItem", p, [itemId |-> i]) : p \in ProjIds, i \in ItemIdPool}
    \cup {Call("moveItem", p, [itemId |-> i, toListId |-> l, toIndex |-> k]) :
            p \in ProjIds, i \in ItemIdPool, l \in Containers, k \in Indexes}
    \cup {Call("deleteProject", p, [none |-> TRUE]) : p \in ProjIds}

\* The board of a legacy project built from every list and item, whatever
\* project they name.
LegacyBoard_unfiltered(db, p) ==
    [project |-> [id |-> p.id, title |-> p.title],
     lists |-> SortByOrder([k \in DOMAIN db.lists |-> [db.lists[k] EXCEPT !.projectId = p.id]]),
     items |-> SortItemsCoerce([k \in DOMAIN db.items |-> [db.items[k] EXCEPT !.projectId = p.id]])]

\* The board migrateLegacyDbIfNeeded and importManyLegacy build for legacy
\* project p (db.ts 196-228, 281-307): the lists and items whose projectId
\* is p's id.
LegacyBoard(db, p) ==
    [project |-> [id |-> p.id, title |-> p.title],
     lists |-> SortByOrder(SelectSeq(db.lists, LAMBDA l : l.projectId = p.id)),
     items |-> SortItemsCoerce(SelectSeq(db.items, LAMBDA it : it.projectId = p.id))]

\* An import payload: the export of a stored project ({project, lists,
\* items}), or JSON of another shape.
Payloads ==
    {[shape |-> "project", board |-> files[p].doc] : p \in {q \in FileIds : files[q].st = "ok"}}
    \cup {[shape |-> "other", board |-> NoDoc]}

\* The boards the import closure hands to importOne, in turn (db.ts
\* 313-320): the parsed object itself, or one board per legacy project.
BoardsOf(payload) ==
    CASE payload.shape = "project" -> <<payload.board>>
      [] payload.shape = "legacy"  ->
           [k \in DOMAIN payload.db.projects |-> LegacyBoard(payload.db, payload.db.projects[k])]
      [] OTHER                     -> <<>>

\* The board an import closure is at: importedProjectIds holds the ids of
\* the ones before it.
ImportingBoard(c) == BoardsOf(c.arg.payload)[Len(c.ids) + 1]

\* createProject and importProjectJsonText: they await ensureInitialized
\* before they chain their closure.
DeferredCalls ==
    {Call("createProject", Null, [title |-> t]) : t \in Titles}
    \cup {Call("importProjectJsonText", Null, [payload |-> x]) : x \in Payloads}

\* ------------------------------------------------------------ id reservation
\* id() is unbounded; the model hands out `projects` / MaxListIds /
\* MaxItemIds ids, so a call is issued only while the ids it may mint are left.
Unminted(c) == c.pc \in {"queued", "load"}

NeedLists(c) == IF c.op \in {"createList", "duplicateList"} /\ Unminted(c) THEN 1 ELSE 0
NeedItems(c) ==
    CASE c.op = "createItem" /\ Unminted(c) -> 1
      [] c.op = "duplicateList" /\ Unminted(c) ->
            IF files[c.pid].st = "ok"
            THEN Cardinality(ItemIndexes(files[c.pid].doc.items, c.arg.listId))
            ELSE 0
      [] OTHER -> 0
NeedProjs(c) ==
    CASE c.op = "createProject" /\ c.pid = Null -> 1
      [] c.op = "importProjectJsonText" ->
           Len(BoardsOf(c.arg.payload)) - Len(c.ids) - (IF Unminted(c) THEN 0 ELSE 1)
      [] OTHER -> 0

RECURSIVE SumOver(_, _)
SumOver(s, k) == IF k = 0 THEN 0 ELSE s[k] + SumOver(s, k - 1)

Pending == queue \o waiting
Reserved(need) == SumOver([k \in DOMAIN Pending |-> need[k]], Len(Pending))

IdsLeft(c, projects) ==
    /\ (nextList - 1) + Reserved([k \in DOMAIN Pending |-> NeedLists(Pending[k])]) + NeedLists(c) <= MaxListIds
    /\ (nextItem - 1) + Reserved([k \in DOMAIN Pending |-> NeedItems(Pending[k])]) + NeedItems(c) <= MaxItemIds
    /\ (nextProj - 1) + Reserved([k \in DOMAIN Pending |-> NeedProjs(Pending[k])]) + NeedProjs(c) <= projects

Room(limit) == Len(queue) + Len(waiting) < limit

\* ------------------------------------------------------------------ actions
Unread == [kind |-> "none"]
NoStamps == [project |-> 0, lists |-> <<>>, items |-> <<>>]
\* No data/db.json, and no migration under way.
NoLegacy ==
    [file |-> [kind |-> "ENOENT"], backup |-> [kind |-> "ENOENT"],
     stage |-> "idle", todo |-> <<>>, runs |-> 0]
AsideIdle ==
    /\ parsed = Unread
    /\ returned = Unread
    /\ clock = 0
    /\ stamps = NoStamps
    /\ legacy = NoLegacy

Init ==
    /\ files = [p \in FileIds |-> Absent]
    /\ queue = <<>>
    /\ waiting = <<>>
    /\ tailErr = "none"
    /\ initState = "none"
    /\ last = [err |-> "none", own |-> TRUE]
    /\ lastRead = "none"
    /\ nextProj = 1
    /\ nextList = 1
    /\ nextItem = 1
    /\ issued = 0
    /\ AsideIdle

Without(s, i) == SubSeq(s, 1, i - 1) \o SubSeq(s, i + 1, Len(s))

\* The text argument an operation validates before it reaches the queue.
OwnText(c) ==
    CASE c.op \in {"createList", "createProject"} -> c.arg.title
      [] c.op = "createItem" -> c.arg.label
      [] OTHER -> Str_a

RequiredMessage(c) ==
    CASE c.op = "createList" -> "List title is required"
      [] c.op = "createProject" -> "Project title is required"
      [] OTHER -> "Item label is required"

Trimmed(c) ==
    CASE c.op \in {"createList", "createProject"} -> [c EXCEPT !.arg.title = Trim(@)]
      [] c.op = "createItem" -> [c EXCEPT !.arg.label = Trim(@)]
      [] OTHER -> c

\* createList / createItem / createProject with a blank title or label:
\* the throw precedes mutateProject and the queue (db.ts 369, 454, 607).
Reject(c) ==
    /\ Trim(OwnText(c)) = <<>>
    /\ last' = [err |-> RequiredMessage(c), own |-> TRUE]
    /\ UNCHANGED <<files, queue, waiting, tailErr, initState, lastRead,
                   nextProj, nextList, nextItem, issued, aside>>

\* mutateProject / deleteProject: the closure is chained on writeQueue in
\* the caller's own turn (db.ts 94, 410).
Enqueue(c, projects) ==
    /\ Trim(OwnText(c)) # <<>>
    /\ IdsLeft(c, projects)
    /\ queue' = Append(queue, Trimmed(c))
    /\ UNCHANGED <<files, waiting, tailErr, initState, last, lastRead,
                   nextProj, nextList, nextItem, issued, aside>>

\* createProject / importProjectJsonText up to `await ensureInitialized()`
\* (db.ts 245, 370); the first caller starts the migration.
Defer(c, projects) ==
    /\ Trim(OwnText(c)) # <<>>
    /\ IdsLeft(c, projects)
    /\ waiting' = Append(waiting, Trimmed(c))
    /\ initState' = IF initState = "none" THEN "running" ELSE initState
    /\ UNCHANGED <<files, queue, tailErr, last, lastRead,
                   nextProj, nextList, nextItem, issued, aside>>

\* migrateLegacyDbIfNeeded with no legacy file: it returns (db.ts 166-178).
Migrate ==
    /\ initState = "running"
    /\ initState' = "done"
    /\ UNCHANGED <<files, queue, waiting, tailErr, last, lastRead,
                   nextProj, nextList, nextItem, issued, aside>>

\* createProject that takes the id of the project created last.
EnqueueDeferred_reuse ==
    /\ waiting # <<>>
    /\ initState = "done"
    /\ LET c == Head(waiting)
           again == Max({nextProj - 1, Min(ProjIds)})
       IN  IF c.op = "createProject"
           THEN /\ queue' = Append(queue, [c EXCEPT !.pid = again, !.target = again])
                /\ nextProj' = again + 1
           ELSE /\ queue' = Append(queue, c)
                /\ nextProj' = nextProj
    /\ waiting' = Tail(waiting)
    /\ UNCHANGED <<files, tailErr, initState, last, lastRead, nextList, nextItem, issued, aside>>

\* The continuation after `await ensureInitialized()`: createProject mints
\* its id and both chain their closure (db.ts 372-385, 312).
EnqueueDeferred ==
    /\ waiting # <<>>
    /\ initState = "done"
    /\ LET c == Head(waiting)
       IN  IF c.op = "createProject"
           THEN /\ queue' = Append(queue, [c EXCEPT !.pid = nextProj, !.target = nextProj])
                /\ nextProj' = nextProj + 1
           ELSE /\ queue' = Append(queue, c)
                /\ nextProj' = nextProj
    /\ waiting' = Tail(waiting)
    /\ UNCHANGED <<files, tailErr, initState, last, lastRead, nextList, nextItem, issued, aside>>

\* A closure chained with writeQueue.then starts once the promise in front
\* of it has settled; with a closure that runs unchained it starts at once.
PredecessorSettled_unchained(i) == TRUE

PredecessorSettled(i) == i = 1

\* The call's promise settles: with the closure's own outcome, or with the
\* rejection it inherited.
Settle(i, err, own) ==
    /\ queue' = Without(queue, i)
    /\ tailErr' = err
    /\ last' = [err |-> err, own |-> own]

\* writeQueue.then(closure): a rejected predecessor rejects the new promise
\* and the closure never runs; otherwise the closure starts (db.ts 94-95,
\* 312-323, 382-384, 410-411).
Begin(i) ==
    /\ queue[i].pc = "queued"
    /\ PredecessorSettled(i)
    /\ LET c == queue[i]
       IN  IF tailErr # "none"
           THEN Settle(i, tailErr, FALSE) /\ UNCHANGED initState
           ELSE IF c.op = "importProjectJsonText" /\ c.arg.payload.shape = "other"
           THEN Settle(i, "Unsupported JSON format", TRUE) /\ UNCHANGED initState
           ELSE /\ queue' = [queue EXCEPT ![i] =
                        IF c.op = "createProject"
                        THEN [c EXCEPT !.pc = "write", !.staged = EmptyBoard(c.pid, c.arg.title)]
                        ELSE [c EXCEPT !.pc = "load"]]
                /\ initState' = IF initState = "none" /\ c.op \in MutateOps \cup {"deleteProject"}
                                THEN "running" ELSE initState
                /\ UNCHANGED <<tailErr, last>>
    /\ UNCHANGED <<files, waiting, lastRead, nextProj, nextList, nextItem, issued, aside>>


\* importOne that writes under the board's own id whatever it read there.
ImportOne_overwrite(rawBoard, np) ==
    LET coerced == coerceProjectFile(rawBoard)
        existing == ReadProjectFile(files[coerced.project.id])
    IN  [err |-> IF existing.kind = "SyntaxError" THEN "SyntaxError" ELSE "none",
         existing |-> existing.doc, minted |-> FALSE,
         finalProjectId |-> coerced.project.id, board |-> coerced]

\* importOne that gives the minted id to the project and leaves the
\* projectId of its lists and items as it came.
ImportOne_untagged(rawBoard, np) ==
    LET coerced == coerceProjectFile(rawBoard)
        existing == ReadProjectFile(files[coerced.project.id])
    IN  CASE existing.kind = "SyntaxError" ->
               [err |-> "SyntaxError", existing |-> NoDoc, minted |-> FALSE,
                finalProjectId |-> Null, board |-> NoDoc]
          [] existing.kind = "board" ->
               [err |-> "none", existing |-> existing.doc, minted |-> TRUE,
                finalProjectId |-> np, board |-> [coerced EXCEPT !.project.id = np]]
          [] OTHER ->
               [err |-> "none", existing |-> NoDoc, minted |-> FALSE,
                finalProjectId |-> coerced.project.id, board |-> coerced]

\* importOne (db.ts 250-272): the coerced board, what it read under the
\* board's own id, the id it writes under, and whether that id was minted.
ImportOne(rawBoard, np) ==
    LET coerced == coerceProjectFile(rawBoard)
        existing == ReadProjectFile(files[coerced.project.id])
        retagged ==
            [project |-> [coerced.project EXCEPT !.id = np],
             lists |-> [k \in DOMAIN coerced.lists |-> [coerced.lists[k] EXCEPT !.projectId = np]],
             items |-> [k \in DOMAIN coerced.items |-> [coerced.items[k] EXCEPT !.projectId = np]]]
    IN  CASE existing.kind = "SyntaxError" ->
               [err |-> "SyntaxError", existing |-> NoDoc, minted |-> FALSE,
                finalProjectId |-> Null, board |-> NoDoc]
          [] existing.kind = "board" ->
               [err |-> "none", existing |-> existing.doc, minted |-> TRUE,
                finalProjectId |-> np, board |-> retagged]
          [] OTHER ->
               [err |-> "none", existing |-> NoDoc, minted |-> FALSE,
                finalProjectId |-> coerced.project.id, board |-> coerced]

\* The closure after ensureInitialized, up to the start of its write:
\* mutateProject reads the file and runs the function (db.ts 96-98),
\* deleteProject unlinks (db.ts 412-418), an import reads the file of the
\* board's id and picks the id to write under (db.ts 252-268).
Load(i) ==
    /\ queue[i].pc = "load"
    /\ initState = "done"
    /\ LET c == queue[i]
       IN  CASE c.op = "deleteProject" ->
                  /\ IF files[c.pid].st = "absent"
                     THEN Settle(i, "Project not found", TRUE) /\ UNCHANGED files
                     ELSE Settle(i, "none", TRUE) /\ files' = [files EXCEPT ![c.pid] = Absent]
                  /\ UNCHANGED <<nextProj, nextList, nextItem>>
             [] c.op = "importProjectJsonText" ->
                  IF BoardsOf(c.arg.payload) = <<>>
                  THEN /\ Settle(i, "none", TRUE)
                       /\ UNCHANGED <<files, nextProj, nextList, nextItem>>
                  ELSE
                  LET one == ImportOne(ImportingBoard(c), nextProj)
                  IN  /\ IF one.err # "none"
                         THEN Settle(i, one.err, TRUE)
                         ELSE /\ queue' = [queue EXCEPT ![i] =
                                     [c EXCEPT !.pc = "write", !.loaded = one.existing,
                                               !.staged = one.board,
                                               !.target = one.finalProjectId]]
                              /\ UNCHANGED <<tailErr, last>>
                      /\ nextProj' = IF one.minted THEN nextProj + 1 ELSE nextProj
                      /\ UNCHANGED <<files, nextList, nextItem>>
             [] OTHER ->
                  LET out == MutateOutcome(files[c.pid], c, nextList, nextItem)
                  IN  /\ IF out.err # "none"
                         THEN /\ Settle(i, out.err, TRUE)
                              /\ UNCHANGED <<nextList, nextItem>>
                         ELSE /\ queue' = [queue EXCEPT ![i] =
                                     [c EXCEPT !.pc = "write", !.loaded = out.loaded,
                                               !.staged = out.data]]
                              /\ nextList' = nextList + MintedLists(out.loaded, out.data)
                              /\ nextItem' = nextItem + MintedItems(out.loaded, out.data)
                              /\ UNCHANGED <<tailErr, last>>
                      /\ UNCHANGED <<files, nextProj>>
    /\ UNCHANGED <<waiting, initState, lastRead, issued, aside>>

\* writeFile opens the target with O_TRUNC and then writes the bytes
\* (db.ts 85-86): from here until the bytes are down the file is not a
\* complete document.
Truncate(i) ==
    /\ queue[i].pc = "write"
    /\ files' = [files EXCEPT ![queue[i].target] = Partial]
    /\ queue' = [queue EXCEPT ![i].pc = "flush"]
    /\ UNCHANGED <<waiting, tailErr, initState, last, lastRead,
                   nextProj, nextList, nextItem, issued, aside>>

\* A store that keeps one document for all projects: the write lands in
\* every project file there is.
Commit_everywhere(i) ==
    /\ queue[i].pc = "flush"
    /\ files' = [p \in FileIds |->
                    IF p = queue[i].target \/ files[p].st = "ok"
                    THEN Stored(queue[i].staged) ELSE files[p]]
    /\ Settle(i, "none", TRUE)
    /\ UNCHANGED <<waiting, initState, lastRead, nextProj, nextList, nextItem, issued, aside>>

\* writeFile has written the document; the closure returns and the call's
\* promise is fulfilled (db.ts 86, 99-102), or, in an import of a legacy
\* db with boards left, importOne pushes the id and the loop goes on
\* (db.ts 271, 279-309).
Commit(i) ==
    /\ queue[i].pc = "flush"
    /\ files' = [files EXCEPT ![queue[i].target] = Stored(queue[i].staged)]
    /\ LET c == queue[i]
       IN  IF c.op = "importProjectJsonText" /\ Len(c.ids) + 1 < Len(BoardsOf(c.arg.payload))
           THEN /\ queue' = [queue EXCEPT ![i] =
                       [c EXCEPT !.pc = "load", !.ids = Append(@, c.target),
                                 !.loaded = NoDoc, !.staged = NoDoc, !.target = c.pid]]
                /\ UNCHANGED <<tailErr, last>>
           ELSE Settle(i, "none", TRUE)
    /\ UNCHANGED <<waiting, initState, lastRead, nextProj, nextList, nextItem, issued, aside>>

\* getProjectBoard / getProject (db.ts 357-361, 423-428): not queued; the
\* first caller starts the migration, later ones read the file as it is.
Read(p) ==
    /\ IF initState = "done"
       THEN /\ lastRead' = ReadProjectFile(files[p]).kind
            /\ UNCHANGED initState
       ELSE /\ initState' = IF initState = "none" THEN "running" ELSE initState
            /\ UNCHANGED lastRead
    /\ UNCHANGED <<files, queue, waiting, tailErr, last, nextProj, nextList, nextItem, issued, aside>>

\* --------------------------------------------------------- specifications
QueueStep ==
    \/ \E i \in DOMAIN queue : Begin(i)
    \/ \E i \in DOMAIN queue : Load(i)
    \/ \E i \in DOMAIN queue : Truncate(i)
    \/ \E i \in DOMAIN queue : Commit(i)

\* One caller that awaits each call before the next: every operation, every
\* argument, one project.
Next ==
    \/ QueueStep
    \/ Migrate
    \/ EnqueueDeferred
    \/ \E c \in QueuedCalls : Room(1) /\ Reject(c)
    \/ \E c \in QueuedCalls : Room(1) /\ Enqueue(c, MaxProj)
    \/ \E c \in DeferredCalls : Room(1) /\ Reject(c)
    \/ \E c \in DeferredCalls : Room(1) /\ Defer(c, MaxProj)

Spec == Init /\ [][Next]_vars

\* Concurrent callers over several projects: calls are issued while others
\* are pending, and reads run beside them.
ConcurrentCalls ==
    {Call("createItem", p, [listId |-> Null, label |-> Str_a]) : p \in FileIds}
    \cup {Call("updateProject", p, [patch |-> SetText(Blank)]) : p \in FileIds}
    \cup {Call("deleteProject", p, [none |-> TRUE]) : p \in FileIds}

ConcurrentDeferred ==
    {Call("createProject", Null, [title |-> t]) : t \in {Str_a, Blank}}
    \cup {Call("importProjectJsonText", Null, [payload |-> x]) : x \in Payloads}

NextQueue ==
    \/ QueueStep
    \/ Migrate
    \/ EnqueueDeferred
    \/ \E c \in ConcurrentCalls : Room(MaxPending) /\ Enqueue(c, StoreProjects)
    \/ \E c \in ConcurrentDeferred : Room(MaxPending) /\ Reject(c)
    \/ \E c \in ConcurrentDeferred : Room(MaxPending) /\ Defer(c, StoreProjects)
    \/ \E p \in FileIds : Read(p)

SpecQueue == Init /\ [][NextQueue]_vars

\* A burst of NConc createItem calls into the Loose container of one
\* project, issued without awaiting, with reads beside them.
BurstProject == Min(ProjIds)
BurstLabels == {Str_a, <<" ", "b">>}

InitBurst ==
    /\ files = [p \in FileIds |-> IF p = BurstProject THEN Stored(EmptyBoard(p, Str_a)) ELSE Absent]
    /\ queue = <<>>
    /\ waiting = <<>>
    /\ tailErr = "none"
    /\ initState = "done"
    /\ last = [err |-> "none", own |-> TRUE]
    /\ lastRead = "none"
    /\ nextProj = BurstProject + 1
    /\ nextList = 1
    /\ nextItem = 1
    /\ issued = 0
    /\ AsideIdle

IssueCreateItem(label) ==
    /\ issued < NConc
    /\ issued' = issued + 1
    /\ queue' = Append(queue, Trimmed(Call("createItem", BurstProject, [listId |-> Null, label |-> label])))
    /\ UNCHANGED <<files, waiting, tailErr, initState, last, lastRead, nextProj, nextList, nextItem, aside>>

NextBurst ==
    \/ QueueStep
    \/ \E t \in BurstLabels : IssueCreateItem(t)
    \/ Read(BurstProject)

SpecBurst == InitBurst /\ [][NextBurst]_vars


\* -------------------------------------------------------------- properties
Written(c) == c.pc \in {"write", "flush"}
StoredIds == {p \in FileIds : files[p].st = "ok"}

\* A container is densely ordered: its members' orders are 0..n-1.
DenseContainer(doc, listId) ==
    ItemOrders(doc, listId) = 0..(Cardinality(ItemIndexes(doc.items, listId)) - 1)
ContainersOf(doc) ==
    {Null} \cup {doc.lists[i].id : i \in DOMAIN doc.lists}
           \cup {doc.items[i].listId : i \in DOMAIN doc.items}
DenseItems(doc) == \A l \in ContainersOf(doc) : DenseContainer(doc, l)
DenseLists(doc) == ListOrders(doc) = 0..(Len(doc.lists) - 1)

\* What a queued call's own closure would do on the store as it is.
PreconditionsHold(c) ==
    CASE c.op \in MutateOps -> MutateOutcome(files[c.pid], c, nextList, nextItem).err = "none"
      [] c.op = "deleteProject" -> files[c.pid].st = "ok"
      [] c.op = "importProjectJsonText" -> c.arg.payload.shape = "project"
      [] OTHER -> TRUE

\* C1: after a queued operation has failed, the write queue is released:
\* an operation enqueued afterwards whose own preconditions hold is run and
\* succeeds, so no queued call whose preconditions hold is ever dropped
\* with an error before its closure has started.
C1_QueueReleased ==
    [][\A i \in DOMAIN queue :
          (queue[i].pc = "queued" /\ PreconditionsHold(queue[i]))
             => ~(queue' = Without(queue, i) /\ last'.err # "none")]_vars

\* C2: in every persisted document, every item container (each list's
\* items, and the Loose items) has the order values 0..n-1, whatever
\* sequence of successful or failed calls led there.
C2_ItemOrdersDense ==
    \A p \in StoredIds : DenseItems(files[p].doc)

\* Two items ended up Loose in a project whose only list was deleted.
C2_Witness ==
    \E p \in StoredIds :
        /\ nextList > 1
        /\ files[p].doc.lists = <<>>
        /\ Cardinality(ItemIndexes(files[p].doc.items, Null)) = 2

\* C3: in every persisted document the order values of the lists are
\* 0..n-1, for any idsInOrder given to reorderLists.
C3_ListOrdersDense ==
    \A p \in StoredIds : DenseLists(files[p].doc)

\* A reorderLists call has put the list created second in front of the
\* list created first, and the result is on disk.
C3_Witness ==
    \E p \in StoredIds :
        /\ Len(files[p].doc.lists) = 2
        /\ files[p].doc.lists[1].id > files[p].doc.lists[2].id
        /\ files[p].doc.lists[1].order = 0

\* C4: once NConc createItem calls issued without awaiting have all
\* resolved, the Loose container holds exactly NConc items with distinct
\* ids and the orders 0..NConc-1: no call's item is lost.
C4_BurstKeepsEveryItem ==
    (issued = NConc /\ queue = <<>>) =>
        LET doc == files[BurstProject].doc
        IN  /\ files[BurstProject].st = "ok"
            /\ Len(doc.items) = NConc
            /\ Cardinality({doc.items[k].id : k \in DOMAIN doc.items}) = NConc
            /\ \A k \in DOMAIN doc.items : doc.items[k].listId = Null
            /\ ItemOrders(doc, Null) = 0..(NConc - 1)
            /\ last.err = "none"

\* The whole burst has resolved and its items are on disk.
C4_Witness ==
    /\ issued = NConc
    /\ queue = <<>>
    /\ files[BurstProject].st = "ok"
    /\ Len(files[BurstProject].doc.items) = NConc

\* C5: at most one queued closure is running (between its start and its
\* last write) at any moment, however many calls are pending.
C5_OneClosureAtATime ==
    Cardinality({i \in DOMAIN queue : queue[i].pc # "queued"}) <= 1

\* One closure is in the middle of its write while another call waits.
C5_Witness ==
    /\ Len(queue) = MaxPending
    /\ queue[1].pc = "flush"
    /\ queue[2].pc = "queued"

\* C6: a read-only operation running beside a write never observes a
\* partially written file.
C6_ReadsSeeWholeDocuments ==
    lastRead # "SyntaxError"

FailureErrors ==
    {"Project not found", "List not found", "Item not found",
     "Project title is required", "List title is required", "Item label is required"}

\* C7: a step that settles a call with a validation or not-found error
\* leaves every persisted document as it was, and the function that threw
\* had not touched the document in memory.
C7_FailedMutationChangesNothing ==
    [][((Len(queue') < Len(queue) \/ last' # last) /\ last'.err \in FailureErrors)
          => /\ files' = files
             /\ \A i \in DOMAIN queue :
                   (queue[i].op \in MutateOps /\ queue[i].pc = "load" /\ queue' = Without(queue, i))
                      => LET out == MutateOutcome(files[queue[i].pid], queue[i], nextList, nextItem)
                         IN  out.data = out.loaded]_vars

\* A mutation of a project that holds items was rejected by its own check.
C7_Witness ==
    /\ last.err \in {"List not found", "Item not found", "List title is required",
                     "Item label is required", "Project title is required"}
    /\ last.own
    /\ queue = <<>>
    /\ \E p \in StoredIds : files[p].doc.items # <<>> /\ files[p].doc.lists # <<>>

Clamp(k, lo, hi) == IF k < lo THEN lo ELSE IF k > hi THEN hi ELSE k
OthersIn(doc, listId, itemId) ==
    {k \in DOMAIN doc.items : doc.items[k].listId = listId /\ doc.items[k].id # itemId}

MovedAsClaimed(before, arg, after) ==
    LET from == before.items[FindItem(before, arg.itemId)].listId
        len == Cardinality(OthersIn(before, arg.toListId, arg.itemId))
    IN  /\ \E k \in DOMAIN after.items :
              /\ after.items[k].id = arg.itemId
              /\ after.items[k].listId = arg.toListId
              /\ after.items[k].order = Clamp(arg.toIndex, 0, len)
        /\ Cardinality({k \in DOMAIN after.items : after.items[k].id = arg.itemId}) = 1
        /\ Cardinality(ItemIndexes(after.items, arg.toListId)) = len + 1
        /\ DenseContainer(after, arg.toListId)
        /\ from # arg.toListId => DenseContainer(after, from)

MoveIsValid(doc, arg) ==
    HasItem(doc, arg.itemId) /\ (arg.toListId = Null \/ HasList(doc, arg.toListId))

\* C8: moveItem of an existing item to an existing list or to Loose, at any
\* integer index, succeeds; the document it writes has the item in the
\* target container at position clamp(index, 0, len), len being the number
\* of other items there, and the source container, if different, has lost
\* the item and is densely ordered.
C8_MoveItemPlacesAtClampedIndex ==
    \A i \in DOMAIN queue :
        queue[i].op = "moveItem" =>
            /\ (queue[i].pc = "load" /\ files[queue[i].pid].st = "ok"
                   /\ MoveIsValid(files[queue[i].pid].doc, queue[i].arg))
                  => LET out == MutateOutcome(files[queue[i].pid], queue[i], nextList, nextItem)
                     IN  out.err = "none" /\ MovedAsClaimed(out.loaded, queue[i].arg, out.data)
            /\ Written(queue[i]) => MovedAsClaimed(queue[i].loaded, queue[i].arg, queue[i].staged)

\* An item is being moved into another container that already holds an
\* item, at an index beyond its end.
C8_Witness ==
    \E i \in DOMAIN queue :
        /\ queue[i].op = "moveItem"
        /\ queue[i].pc = "flush"
        /\ queue[i].arg.toIndex > 1
        /\ queue[i].arg.toListId # Null
        /\ queue[i].loaded.items[FindItem(queue[i].loaded, queue[i].arg.itemId)].listId = Null
        /\ Cardinality(OthersIn(queue[i].loaded, queue[i].arg.toListId, queue[i].arg.itemId)) = 1

ItemIdsOf(doc) == {doc.items[k].id : k \in DOMAIN doc.items}
ListIdsOf(doc) == {doc.lists[k].id : k \in DOMAIN doc.lists}
ItemById(doc, itemId) == doc.items[FindItem(doc, itemId)]

ListDeletedAsClaimed(before, listId, after) ==
    /\ ListIdsOf(after) = ListIdsOf(before) \ {listId}
    /\ Len(after.lists) = Len(before.lists) - 1
    /\ ItemIdsOf(after) = ItemIdsOf(before)
    /\ Len(after.items) = Len(before.items)
    /\ \A x \in ItemIdsOf(before) :
          LET was == ItemById(before, x)
              now == ItemById(after, x)
          IN  /\ now.label = was.label
              /\ was.listId = listId => now.listId = Null
              /\ was.listId # listId => now.listId = was.listId
              /\ was.listId \notin {listId, Null} => now.order = was.order
    /\ DenseContainer(after, Null)

\* C9: deleteList on an existing list succeeds and removes only the list
\* record: every item is still there, the list's items have listId null,
\* items of other lists keep listId and order, and Loose is densely ordered.
C9_DeleteListKeepsItems ==
    \A i \in DOMAIN queue :
        queue[i].op = "deleteList" =>
            /\ (queue[i].pc = "load" /\ files[queue[i].pid].st = "ok"
                   /\ HasList(files[queue[i].pid].doc, queue[i].arg.listId))
                  => LET out == MutateOutcome(files[queue[i].pid], queue[i], nextList, nextItem)
                     IN  out.err = "none"
                         /\ ListDeletedAsClaimed(out.loaded, queue[i].arg.listId, out.data)
            /\ Written(queue[i])
                  => ListDeletedAsClaimed(queue[i].loaded, queue[i].arg.listId, queue[i].staged)

\* A list holding an item is being deleted while Loose holds one too.
C9_Witness ==
    \E i \in DOMAIN queue :
        /\ queue[i].op = "deleteList"
        /\ queue[i].pc = "flush"
        /\ ItemIndexes(queue[i].loaded.items, queue[i].arg.listId) # {}
        /\ ItemIndexes(queue[i].loaded.items, Null) # {}
        /\ Cardinality(ItemIndexes(queue[i].staged.items, Null)) = 2

\* C10: an import whose board carries the id of an existing project writes
\* under a minted id that is not the board's and names no file, tags the
\* board with it, and the existing project's file stays as it was through
\* every step of the import.
C10_ImportNeverOverwrites ==
    [][\A i \in DOMAIN queue :
          LET c == queue[i]
              orig == ImportingBoard(c).project.id
          IN  (c.op = "importProjectJsonText" /\ Written(c) /\ c.loaded # NoDoc)
                 => /\ c.target # orig
                    /\ c.staged.project.id = c.target
                    /\ c.pc = "write" => files[c.target].st = "absent"
                    /\ files[orig] = Stored(c.loaded)
                    /\ files'[orig] = files[orig]]_vars

\* The export of a project that holds an item is being imported beside it.
C10_Witness ==
    \E i \in DOMAIN queue :
        /\ queue[i].op = "importProjectJsonText"
        /\ queue[i].pc = "flush"
        /\ queue[i].loaded # NoDoc
        /\ queue[i].staged.items # <<>>
        /\ files[ImportingBoard(queue[i]).project.id].st = "ok"


\* ------------------------------------------------- coercion of any document
\* Lists and items of a document as JSON.parse may give it for a file that
\* was edited by hand or written by an older schema: the record at place k
\* has id k; `order` may be absent, repeated or leave gaps; a title or
\* label may be blank; an item's listId may name no list or be "".
MaxRaw == 2

RawListsAt(k) ==
    {[id |-> k, title |-> Blank],
     [id |-> k, title |-> <<" ", "a">>, order |-> 2]}

RawItemsAt(k) ==
    {[id |-> k, listId |-> l, label |-> m[1], updatedAt |-> m[2]] :
        l \in {Null, EmptyId, 1, MaxRaw + 1}, m \in {<<Blank, 1>>, <<Str_a, 2>>}}
    \cup {[id |-> k, listId |-> l, label |-> m[1], updatedAt |-> m[2], order |-> 2] :
        l \in {Null, EmptyId, 1, MaxRaw + 1}, m \in {<<Blank, 1>>, <<Str_a, 2>>}}

RECURSIVE RawListSeqs(_)
RawListSeqs(n) ==
    IF n = 0 THEN {<<>>}
    ELSE {Append(s, r) : s \in RawListSeqs(n - 1), r \in RawListsAt(n)}

RECURSIVE RawItemSeqs(_)
RawItemSeqs(n) ==
    IF n = 0 THEN {<<>>}
    ELSE {Append(s, r) : s \in RawItemSeqs(n - 1), r \in RawItemsAt(n)}

RawDocs(max) ==
    {[project |-> [id |-> BurstProject, title |-> t], lists |-> ls, items |-> is] :
        t \in Titles,
        ls \in UNION {RawListSeqs(n) : n \in 0..max},
        is \in UNION {RawItemSeqs(n) : n \in 0..max}}

Doc(d) == [kind |-> "doc", doc |-> d]

InitCoerce ==
    /\ files = [p \in FileIds |-> Absent]
    /\ queue = <<>>
    /\ waiting = <<>>
    /\ tailErr = "none"
    /\ initState = "done"
    /\ last = [err |-> "none", own |-> TRUE]
    /\ lastRead = "none"
    /\ nextProj = 1
    /\ nextList = 1
    /\ nextItem = 1
    /\ issued = 0
    /\ parsed \in {Doc(d) : d \in RawDocs(MaxRaw)}
    /\ returned = Unread
    /\ clock = 0
    /\ stamps = NoStamps
    /\ legacy = NoLegacy

\* readProjectFile / importOne hand the parsed document to coerceProjectFile
\* and return or write what it gives (db.ts 72-73, 251, 265-271).
Coerce ==
    /\ parsed.kind = "doc"
    /\ returned = Unread
    /\ returned' = Doc(coerceProjectFile(parsed.doc))
    /\ UNCHANGED <<files, queue, waiting, tailErr, initState, last, lastRead,
                   nextProj, nextList, nextItem, issued, parsed, clock, stamps, legacy>>

\* The document coerceProjectFile gave is written and read again.
Recoerce ==
    /\ returned # Unread
    /\ parsed' = returned
    /\ returned' = Unread
    /\ UNCHANGED <<files, queue, waiting, tailErr, initState, last, lastRead,
                   nextProj, nextList, nextItem, issued, clock, stamps, legacy>>

NextCoerce ==
    \/ Coerce
    \/ Recoerce

SpecCoerce == InitCoerce /\ [][NextCoerce]_vars

\* C11: every document the store returns from a read or persists through
\* an import is densely ordered in every container (lists, the items of
\* each list, the Loose items), whatever the stored or imported input.
C11_CoercedIsDense ==
    returned # Unread => DenseLists(returned.doc) /\ DenseItems(returned.doc)

\* C12: in every document the store returns or persists, every item's
\* listId is null or the id of a list of the same document.
C12_ListIdsResolve ==
    returned # Unread =>
        \A k \in DOMAIN returned.doc.items :
            \/ returned.doc.items[k].listId = Null
            \/ HasList(returned.doc, returned.doc.items[k].listId)

\* C13: coerceProjectFile applied to a document that coerceProjectFile
\* returned gives the same document: same project, same lists and items
\* with the same fields, in the same sequence.
C13_CoerceIdempotent ==
    returned # Unread => coerceProjectFile(returned.doc) = returned.doc

\* A document that coercion changed (a blank label replaced, an unknown
\* listId loosened, a missing order filled in) and in which two items of
\* one container tie on order and updatedAt.
C13_Witness ==
    /\ returned # Unread
    /\ returned.doc # parsed.doc
    /\ Len(returned.doc.items) = 2
    /\ returned.doc.items[1].listId = returned.doc.items[2].listId
    /\ returned.doc.items[1].order = returned.doc.items[2].order
    /\ returned.doc.items[1].updatedAt = returned.doc.items[2].updatedAt
    /\ returned.doc.items[1].label # returned.doc.items[2].label
    /\ \E k \in DOMAIN parsed.doc.items : parsed.doc.items[k].listId = MaxRaw + 1

\* ------------------------------------------------------ reordering a board
\* A project with MaxListIds + 1 lists, created one after the other, and
\* one caller that reorders them again and again: every sequence of up to
\* that many ids, drawn from the lists' ids and an id of no list.
BoardLists == MaxListIds + 1
StrayList == EmptyId - 1

BoardTitle(k) ==
    CASE k = 2 -> Str_a \o CopyOpen \o CopyClose
      [] k = 3 -> <<"A">> \o CopyOpen \o <<" ", "2">> \o CopyClose
      [] OTHER -> Str_a

Board(n) ==
    [project |-> [id |-> BurstProject, title |-> Str_a],
     lists |-> [k \in 1..n |->
                  [id |-> k, projectId |-> BurstProject, title |-> BoardTitle(k), order |-> k - 1]],
     items |-> <<>>]

ReorderSeqs == UNION {[1..n -> (1..BoardLists) \cup {StrayList}] : n \in 0..BoardLists}

InitReorder ==
    /\ files = [p \in FileIds |->
                  IF p = BurstProject THEN Stored(Board(BoardLists)) ELSE Absent]
    /\ queue = <<>>
    /\ waiting = <<>>
    /\ tailErr = "none"
    /\ initState = "done"
    /\ last = [err |-> "none", own |-> TRUE]
    /\ lastRead = "none"
    /\ nextProj = BurstProject + 1
    /\ nextList = BoardLists + 1
    /\ nextItem = 1
    /\ issued = 0
    /\ AsideIdle

IssueReorder(ids) ==
    /\ Room(1)
    /\ queue' = Append(queue, Call("reorderLists", BurstProject, [listIdsInOrder |-> ids]))
    /\ UNCHANGED <<files, waiting, tailErr, initState, last, lastRead,
                   nextProj, nextList, nextItem, issued, aside>>

NextReorder ==
    \/ QueueStep
    \/ \E ids \in ReorderSeqs : IssueReorder(ids)

SpecReorder == InitReorder /\ [][NextReorder]_vars

\* The value reorderLists returns: [...data.lists].sort by order.
reorderListsReturn(data) == SortByOrder(data.lists)

IdsOf(lists) == [k \in DOMAIN lists |-> lists[k].id]
NoRepeats(ids) == \A j, k \in DOMAIN ids : ids[j] = ids[k] => j = k
Reordering(c) == c.op = "reorderLists" /\ Written(c)

\* C14: reorderLists with idsInOrder naming a subset of the project's lists
\* puts the named lists first, in the given order, and every omitted list
\* after them, the omitted lists in their previous relative order.
C14_NamedListsFirst ==
    \A i \in DOMAIN queue :
        LET c == queue[i]
            ids == c.arg.listIdsInOrder
            omitted == SelectSeq(IdsOf(SortByOrder(c.loaded.lists)),
                                 LAMBDA l : l \notin Range(ids))
        IN  (Reordering(c) /\ NoRepeats(ids) /\ Range(ids) \subseteq ListIdsOf(c.loaded))
                => IdsOf(reorderListsReturn(c.staged)) = ids \o omitted

\* C15: ids of idsInOrder that belong to no list of the project are
\* ignored: the resulting order of the lists is that of the same call with
\* those ids removed from idsInOrder.
C15_UnknownIdsIgnored ==
    \A i \in DOMAIN queue :
        LET c == queue[i]
            known == SelectSeq(c.arg.listIdsInOrder, LAMBDA l : HasList(c.loaded, l))
        IN  Reordering(c)
                => reorderListsReturn(c.staged)
                     = reorderListsReturn(reorderListsFn(c.loaded, known).data)

IsPermutation(ids, doc) ==
    NoRepeats(ids) /\ Range(ids) = ListIdsOf(doc) /\ Len(ids) = Len(doc.lists)

\* C16: when idsInOrder is a permutation of all the list ids of the
\* project, reorderLists succeeds, the k-th id gets order k (from 0), and
\* the sequence it returns is sorted by that order and holds every list of
\* the project exactly once.
C16_PermutationIsApplied ==
    \A i \in DOMAIN queue :
        LET c == queue[i]
            ids == c.arg.listIdsInOrder
        IN  c.op = "reorderLists" =>
              /\ (c.pc = "load" /\ files[c.pid].st = "ok")
                    => MutateOutcome(files[c.pid], c, nextList, nextItem).err = "none"
              /\ (Written(c) /\ IsPermutation(ids, c.loaded))
                    => /\ \A k \in DOMAIN ids :
                             c.staged.lists[FindList(c.staged, ids[k])].order = k - 1
                       /\ IdsOf(reorderListsReturn(c.staged)) = ids
                       /\ Len(reorderListsReturn(c.staged)) = Len(c.loaded.lists)
                       /\ \A k \in DOMAIN c.loaded.lists :
                             LET now == c.staged.lists[FindList(c.staged, c.loaded.lists[k].id)]
                             IN  now = [c.loaded.lists[k] EXCEPT !.order = now.order]

\* All the lists are being reordered, by a permutation that moves each of
\* them away from the place a reordering before it had given it.
C16_Witness ==
    \E i \in DOMAIN queue :
        /\ Reordering(queue[i])
        /\ queue[i].pc = "flush"
        /\ IsPermutation(queue[i].arg.listIdsInOrder, queue[i].loaded)
        /\ IdsOf(queue[i].loaded.lists) # IdsOf(Board(BoardLists).lists)
        /\ \A k \in DOMAIN queue[i].loaded.lists :
              queue[i].loaded.lists[k].id # queue[i].arg.listIdsInOrder[k]

\* ----------------------------------------------------- duplicating a list
\* The board above with items: MaxItemIds of them in list 1, which moveItem
\* calls have left in the reverse of the order they were created in, and a
\* Loose one; one caller duplicates lists, clones included, MaxDup times.
MaxDup == 3

BoardItems == MaxItemIds + 1

BoardLabel(k) == IF k = 1 THEN Str_a ELSE <<"b">>

BoardWithItems ==
    [Board(BoardLists) EXCEPT !.items =
        [k \in 1..BoardItems |->
            [id |-> k, projectId |-> BurstProject,
             listId |-> IF k = BoardItems THEN Null ELSE 1,
             label |-> BoardLabel(k),
             order |-> IF k = BoardItems THEN 0 ELSE MaxItemIds - k]]]

InitDuplicate ==
    /\ files = [p \in FileIds |->
                  IF p = BurstProject THEN Stored(BoardWithItems) ELSE Absent]
    /\ queue = <<>>
    /\ waiting = <<>>
    /\ tailErr = "none"
    /\ initState = "done"
    /\ last = [err |-> "none", own |-> TRUE]
    /\ lastRead = "none"
    /\ nextProj = BurstProject + 1
    /\ nextList = BoardLists + 1
    /\ nextItem = BoardItems + 1
    /\ issued = 0
    /\ AsideIdle

IssueDuplicate(listId) ==
    /\ Room(1)
    /\ issued < MaxDup
    /\ issued' = issued + 1
    /\ queue' = Append(queue, Call("duplicateList", BurstProject, [listId |-> listId]))
    /\ UNCHANGED <<files, waiting, tailErr, initState, last, lastRead,
                   nextProj, nextList, nextItem, aside>>

NextDuplicate ==
    \/ QueueStep
    \/ \E l \in (1..(BoardLists + 1)) \cup {StrayList} : IssueDuplicate(l)

SpecDuplicate == InitDuplicate /\ [][NextDuplicate]_vars

\* The duplicatedItemCount duplicateList returns: srcItems.length.
duplicateListReturn(data, listId) == Cardinality(ItemIndexes(data.items, listId))

LabelsInOrder(doc, listId) ==
    LET at == SortedIndexes(doc.items, ItemIndexes(doc.items, listId))
    IN  [k \in DOMAIN at |-> doc.items[at[k]].label]

DuplicatedAsClaimed(before, listId, after) ==
    LET made == ListIdsOf(after) \ ListIdsOf(before)
        clones == ItemIdsOf(after) \ ItemIdsOf(before)
        k == Cardinality(ItemIndexes(before.items, listId))
    IN  /\ Cardinality(made) = 1
        /\ Len(after.lists) = Len(before.lists) + 1
        /\ \A n \in made : \A j \in DOMAIN before.lists :
              after.lists[FindList(after, n)].order > before.lists[j].order
        /\ \A j \in DOMAIN before.lists :
              after.lists[FindList(after, before.lists[j].id)] = before.lists[j]
        /\ Cardinality(clones) = k
        /\ Len(after.items) = Len(before.items) + k
        /\ duplicateListReturn(before, listId) = k
        /\ \A x \in clones : ItemById(after, x).listId \in made
        /\ \A n \in made :
              /\ Cardinality(ItemIndexes(after.items, n)) = k
              /\ ItemOrders(after, n) = 0..(k - 1)
              /\ LabelsInOrder(after, n) = LabelsInOrder(before, listId)
        /\ \A x \in ItemIdsOf(before) : ItemById(after, x) = ItemById(before, x)

\* C17: duplicateList on an existing list succeeds and adds one list with
\* a fresh id and an order above every existing list's, and one item with
\* a fresh id per item of the source, in the new list, with the same labels
\* in the same relative order and the orders 0..k-1; it returns k; the
\* source, its items and every other list and item are as they were.
C17_DuplicateListClones ==
    \A i \in DOMAIN queue :
        queue[i].op = "duplicateList" =>
            /\ (queue[i].pc = "load" /\ files[queue[i].pid].st = "ok"
                   /\ HasList(files[queue[i].pid].doc, queue[i].arg.listId))
                  => LET out == MutateOutcome(files[queue[i].pid], queue[i], nextList, nextItem)
                     IN  out.err = "none"
                         /\ DuplicatedAsClaimed(out.loaded, queue[i].arg.listId, out.data)
            /\ Written(queue[i])
                  => DuplicatedAsClaimed(queue[i].loaded, queue[i].arg.listId, queue[i].staged)

\* A clone that holds several items is being duplicated in its turn.
C17_Witness ==
    \E i \in DOMAIN queue :
        /\ queue[i].op = "duplicateList"
        /\ queue[i].pc = "flush"
        /\ queue[i].arg.listId > BoardLists
        /\ Cardinality(ItemIndexes(queue[i].loaded.items, queue[i].arg.listId)) > 1
        /\ Len(queue[i].staged.items) > Len(queue[i].loaded.items)

\* ------------------------------------------------------ deleting a project
\* listProjectFileIds (db.ts 47-60): the ids of the files in the directory.
listProjectFileIds == {p \in FileIds : files[p].st # "absent"}

\* The closure of queue[i], past ensureInitialized, takes its step.
Runs(i) ==
    /\ queue[i].pc = "load"
    /\ \/ Len(queue') < Len(queue)
       \/ i \in DOMAIN queue' /\ queue'[i] # queue[i]

\* C18: a deleteProject closure that runs on an existing project removes
\* its file, and on an absent one throws 'Project not found'; while the
\* file is absent, getProjectBoard finds null (and throws 'Project not
\* found'), the id is not among those listProjects reads, every mutation
\* closure that runs on that id, the ones enqueued behind the delete
\* included, throws 'Project not found' and writes nothing, and no mutation
\* brings the file back: only createProject or an import writes a file
\* that was absent.
C18_DeletedProjectIsGone ==
    [][/\ \A i \in DOMAIN queue :
             LET c == queue[i]
             IN  /\ (c.op = "deleteProject" /\ Runs(i) /\ files[c.pid].st # "absent")
                       => /\ files'[c.pid] = Absent
                          /\ c.pid \notin listProjectFileIds'
                          /\ ReadProjectFile(files'[c.pid]).kind = "null"
                          /\ last' = [err |-> "none", own |-> TRUE]
                 /\ (c.op = "deleteProject" /\ Runs(i) /\ files[c.pid].st = "absent")
                       => /\ files' = files
                          /\ last' = [err |-> "Project not found", own |-> TRUE]
                 /\ (c.op \in MutateOps /\ Runs(i) /\ files[c.pid].st = "absent")
                       => /\ files' = files
                          /\ Len(queue') < Len(queue)
                          /\ last' = [err |-> "Project not found", own |-> TRUE]
       /\ \A p \in FileIds :
             (files[p].st = "absent" /\ files'[p].st # "absent")
                => \E i \in DOMAIN queue :
                      /\ queue[i].target = p
                      /\ queue[i].op \in {"createProject", "importProjectJsonText"}]_vars

\* A mutation enqueued behind a deleteProject has reached its read: the
\* project was created and written (no call has failed so far), and its
\* file is gone.
C18_Witness ==
    /\ Len(queue) = 1
    /\ waiting = <<>>
    /\ tailErr = "none"
    /\ queue[1].op \in MutateOps
    /\ queue[1].pc = "load"
    /\ queue[1].pid < nextProj
    /\ files[queue[1].pid].st = "absent"

\* ------------------------------------------------------------- updatedAt
\* One caller at a time mutates the project of a stored board and awaits
\* each call, so that the closure of mutateProject (read, fn, write) is one
\* step.  nowIso() (db.ts 27) reads a clock that never runs backwards: the
\* calls of a closure that stamp its records read `early`, its last call,
\* which stamps the project, reads `now`, early <= now.
MaxMut == 2

Ticks == {0, 1}

ClockCalls ==
    {Call("updateProject", BurstProject, [patch |-> x]) : x \in {NoPatch, SetText(Blank)}}
    \cup {Call("createList", BurstProject, [title |-> Str_a])}
    \cup {Call("duplicateList", BurstProject, [listId |-> 1])}
    \cup {Call("updateList", BurstProject, [listId |-> l, patch |-> SetText(Str_a)]) : l \in {2, StrayList}}
    \cup {Call("deleteList", BurstProject, [listId |-> 1])}
    \cup {Call("reorderLists", BurstProject, [listIdsInOrder |-> s]) : s \in {<<2, StrayList>>}}
    \cup {Call("createItem", BurstProject, [listId |-> Null, label |-> Str_a])}
    \cup {Call("updateItem", BurstProject, [itemId |-> 1, patch |-> NoPatch])}
    \cup {Call("deleteItem", BurstProject, [itemId |-> i]) : i \in {1, BoardItems}}
    \cup {Call("moveItem", BurstProject, [itemId |-> BoardItems, toListId |-> l, toIndex |-> 0]) : l \in {Null, 1}}

\* The records a closure assigns updatedAt to, or creates with one, before
\* it stamps the project.
StampedLists(c, before, after) ==
    CASE c.op \in {"createList", "duplicateList"} -> ListIdsOf(after) \ ListIdsOf(before)
      [] c.op = "updateList"   -> {c.arg.listId}
      [] c.op = "reorderLists" -> Range(c.arg.listIdsInOrder) \cap ListIdsOf(before)
      [] OTHER                 -> {}

StampedItems(c, before, after) ==
    CASE c.op \in {"createItem", "duplicateList"} -> ItemIdsOf(after) \ ItemIdsOf(before)
      [] c.op = "updateItem" -> {c.arg.itemId}
      [] c.op = "deleteList" ->
           {before.items[k].id : k \in ItemIndexes(before.items, c.arg.listId)}
      [] c.op = "moveItem"   ->
           {after.items[k].id : k \in ItemIndexes(after.items, c.arg.toListId)}
      [] OTHER               -> {}

\* deleteItem that leaves the project's updatedAt alone.
StampsAfter_quiet(c, before, after, st, early, now) ==
    [project |-> IF c.op = "deleteItem" THEN st.project ELSE now,
     lists |-> [id \in ListIdsOf(after) |->
                  IF id \in StampedLists(c, before, after) THEN early ELSE st.lists[id]],
     items |-> [id \in ItemIdsOf(after) |->
                  IF id \in StampedItems(c, before, after) THEN early ELSE st.items[id]]]

\* The updatedAt of the project and of each record after a closure that
\* returned: `project.updatedAt = nowIso()` closes every one of them.
StampsAfter(c, before, after, st, early, now) ==
    [project |-> now,
     lists |-> [id \in ListIdsOf(after) |->
                  IF id \in StampedLists(c, before, after) THEN early ELSE st.lists[id]],
     items |-> [id \in ItemIdsOf(after) |->
                  IF id \in StampedItems(c, before, after) THEN early ELSE st.items[id]]]

InitClock ==
    /\ files = [p \in FileIds |->
                  IF p = BurstProject THEN Stored(BoardWithItems) ELSE Absent]
    /\ queue = <<>>
    /\ waiting = <<>>
    /\ tailErr = "none"
    /\ initState = "done"
    /\ last = [err |-> "none", own |-> TRUE]
    /\ lastRead = "none"
    /\ nextProj = BurstProject + 1
    /\ nextList = BoardLists + 1
    /\ nextItem = BoardItems + 1
    /\ issued = 0
    /\ parsed = Unread
    /\ returned = Unread
    /\ clock = 0
    /\ stamps = [project |-> 0,
                 lists |-> [id \in ListIdsOf(BoardWithItems) |-> 0],
                 items |-> [id \in ItemIdsOf(BoardWithItems) |-> 0]]
    /\ legacy = NoLegacy

Mutate(c, early, now) ==
    /\ issued < MaxMut
    /\ issued' = issued + 1
    /\ LET out == MutateOutcome(files[c.pid], c, nextList, nextItem)
       IN  IF out.err # "none"
           THEN /\ last' = [err |-> out.err, own |-> TRUE]
                /\ tailErr' = out.err
                /\ clock' = early
                /\ UNCHANGED <<files, nextList, nextItem, stamps>>
           ELSE /\ last' = [err |-> "none", own |-> TRUE]
                /\ files' = [files EXCEPT ![c.pid] = Stored(out.data)]
                /\ nextList' = nextList + MintedLists(out.loaded, out.data)
                /\ nextItem' = nextItem + MintedItems(out.loaded, out.data)
                /\ stamps' = StampsAfter(c, out.loaded, out.data, stamps, early, now)
                /\ clock' = now
                /\ UNCHANGED tailErr
    /\ UNCHANGED <<queue, waiting, initState, lastRead, nextProj, parsed, returned, legacy>>

NextClock ==
    \E c \in ClockCalls, d \in Ticks, e \in Ticks : Mutate(c, clock + d, clock + d + e)

SpecClock == InitClock /\ [][NextClock]_vars

StampValues(st) == Range(st.lists) \cup Range(st.items)

\* C19: a mutation that succeeds leaves the project's updatedAt at the time
\* of the mutation, which is not before the updatedAt the project had and
\* not before the updatedAt of any record, the ones the mutation stamped
\* included; a mutation that fails leaves every updatedAt as it was.
C19_ProjectStampedLast ==
    [][/\ (issued' # issued /\ last'.err = "none")
            => /\ stamps'.project = clock'
               /\ stamps'.project >= stamps.project
               /\ \A t \in StampValues(stamps') : t <= stamps'.project
       /\ (issued' # issued /\ last'.err # "none") => stamps' = stamps]_vars

\* After two mutations the project's updatedAt is the present time and
\* later than that of an item a mutation stamped.
C19_Witness ==
    /\ issued >= 2
    /\ last.err = "none"
    /\ stamps.project = clock
    /\ \E id \in DOMAIN stamps.items :
          /\ stamps.items[id] > 0
          /\ stamps.items[id] < stamps.project

\* ------------------------------------------------------- required texts
NonBlank(t) == Trim(t) # <<>>

TextsOf(doc) ==
    {doc.project.title}
    \cup {doc.lists[k].title : k \in DOMAIN doc.lists}
    \cup {doc.items[k].label : k \in DOMAIN doc.items}

RequiredErrors ==
    {"Project title is required", "List title is required", "Item label is required"}

UpdateOps == {"updateProject", "updateList", "updateItem"}

\* The record an update call names is in the document.
TargetIn(c, doc) ==
    CASE c.op = "updateList" -> HasList(doc, c.arg.listId)
      [] c.op = "updateItem" -> HasItem(doc, c.arg.itemId)
      [] OTHER               -> TRUE

\* The text an update call is about, in the document.
TextIn(c, doc) ==
    CASE c.op = "updateList" -> doc.lists[FindList(doc, c.arg.listId)].title
      [] c.op = "updateItem" -> doc.items[FindItem(doc, c.arg.itemId)].label
      [] OTHER               -> doc.project.title

\* The error an update call throws for a blank text.
RequiredOf(c) ==
    CASE c.op = "updateList" -> "List title is required"
      [] c.op = "updateItem" -> "Item label is required"
      [] OTHER               -> "Project title is required"

TextsPresent ==
    /\ \A p \in StoredIds : \A t \in TextsOf(files[p].doc) : NonBlank(t)
    /\ \A i \in DOMAIN queue :
          /\ NonBlank(OwnText(queue[i]))
          /\ Written(queue[i]) => \A t \in TextsOf(queue[i].staged) : NonBlank(t)
    /\ \A i \in DOMAIN waiting : NonBlank(OwnText(waiting[i]))

\* C20: every persisted project title, list title and item label, and
\* every one about to be written, is non-empty after trimming; a create
\* call with a blank title or label never reaches the queue, and a call
\* that ends with an 'is required' error changes no file; an update
\* closure that runs with a blank title or label on a record that exists
\* throws the 'is required' error and writes nothing, and one whose patch
\* has no title or label stages the text it loaded.
C20_RequiredTextsPresent ==
    [][/\ TextsPresent
       /\ TextsPresent'
       /\ (last' # last /\ last'.own /\ last'.err \in RequiredErrors) => files' = files
       /\ \A i \in DOMAIN queue :
             LET c == queue[i]
                 read == ReadProjectFile(files[c.pid])
             IN  (/\ c.op \in UpdateOps
                  /\ Runs(i)
                  /\ read.kind = "board"
                  /\ TargetIn(c, read.doc))
                    => IF c.arg.patch.has /\ ~NonBlank(c.arg.patch.text)
                       THEN /\ last' = [err |-> RequiredOf(c), own |-> TRUE]
                            /\ files' = files
                            /\ Len(queue') < Len(queue)
                       ELSE /\ Len(queue') = Len(queue)
                            /\ queue'[i].pc = "write"
                            /\ \A t \in TextsOf(queue'[i].staged) : NonBlank(t)
                            /\ ~c.arg.patch.has
                                  => TextIn(c, queue'[i].staged) = TextIn(c, read.doc)]_vars

\* An updateList with a blank title has just thrown 'List title is
\* required', and the list it named is stored with its title.
C20_Witness ==
    /\ last = [err |-> "List title is required", own |-> TRUE]
    /\ \E p \in StoredIds :
          /\ files[p].doc.lists # <<>>
          /\ \A t \in TextsOf(files[p].doc) : NonBlank(t)

\* ------------------------------------------------------------- imports
UnsupportedFormat == "Unsupported JSON format"

\* C21: an import of JSON with neither a 'project' nor a 'projects' key
\* ends with the unsupported-format error and changes no file, and the
\* store recovers from it: a call queued behind that failure whose own
\* preconditions hold is run, it is not turned away with the import's
\* error.
C21_UnsupportedImportRecoverable ==
    [][/\ (last' # last /\ last'.own /\ last'.err = UnsupportedFormat) => files' = files
       /\ \A i \in DOMAIN queue :
             LET c == queue[i]
             IN  /\ (/\ c.op = "importProjectJsonText"
                     /\ c.arg.payload.shape = "other"
                     /\ c.pc = "queued"
                     /\ tailErr = "none"
                     /\ queue' = Without(queue, i))
                       => /\ last' = [err |-> UnsupportedFormat, own |-> TRUE]
                          /\ files' = files
                 /\ (/\ c.pc = "queued"
                     /\ PreconditionsHold(c)
                     /\ tailErr = UnsupportedFormat)
                       => ~(queue' = Without(queue, i) /\ last'.err = UnsupportedFormat)]_vars

\* ------------------------------------------------------- createProject
\* The closure of queue[i] finishes its write.
Commits(i) == queue[i].pc = "flush" /\ queue' = Without(queue, i)

OthersKept(p) == \A q \in FileIds \ {p} : files'[q] = files[q]

\* C22: a createProject call that reaches the queue has a title that is
\* non-empty after trimming and an id under which no document exists and
\* which no other pending write targets; its write puts there the board
\* with that id and title, no lists and no items, and no step of it
\* changes another project's document.  A createProject call with a blank
\* title throws 'Project title is required' before it waits or queues:
\* no document, no id and no pending call comes of it.
C22_CreateProjectIsFresh ==
    [][/\ \A i \in DOMAIN waiting : NonBlank(OwnText(waiting[i]))
       /\ \A i \in DOMAIN queue :
             LET c == queue[i]
             IN  c.op = "createProject"
                    => /\ NonBlank(c.arg.title)
                       /\ c.target < nextProj
                       /\ \A j \in DOMAIN queue \ {i} :
                             queue[j].op \in {"createProject", "importProjectJsonText"}
                                => queue[j].target # c.target
                       /\ c.pc \in {"queued", "write"} => files[c.target].st = "absent"
                       /\ Written(c) => c.staged = EmptyBoard(c.target, c.arg.title)
                       /\ (Written(c) /\ queue' # queue) => OthersKept(c.target)
                       /\ Commits(i)
                             => /\ files'[c.target].st = "ok"
                                /\ files'[c.target].doc.project = [id |-> c.target, title |-> c.arg.title]
                                /\ files'[c.target].doc.lists = <<>>
                                /\ files'[c.target].doc.items = <<>>
                                /\ last' = [err |-> "none", own |-> TRUE]
       /\ (/\ last' # last
           /\ last' = [err |-> "Project title is required", own |-> TRUE]
           /\ queue' = queue)
             => /\ files' = files
                /\ waiting' = waiting
                /\ nextProj' = nextProj]_vars

\* A second project is being created beside a stored one.
C22_Witness ==
    \E i \in DOMAIN queue :
        /\ queue[i].op = "createProject"
        /\ queue[i].pc = "flush"
        /\ \E p \in StoredIds : p # queue[i].target

\* ------------------------------------------------------- legacy migration
\* data/db.json as the older, single-file store left it: projects, lists
\* and items side by side, each list and item naming its project by
\* projectId.  The ids are the ones id() gave that store, so no two
\* projects share one; a list or an item may name a project that is gone.
LegacyProject(k) == [id |-> k, title |-> IF k = 1 THEN Str_a ELSE <<"b", " ">>]

LegacyDb(ps, f) ==
    [projects |-> ps,
     lists |-> [k \in 1..StoreProjects |->
                  [id |-> k, projectId |-> f[k], title |-> Str_a, order |-> StoreProjects - k]],
     items |-> [k \in 1..StoreProjects |->
                  [id |-> k, projectId |-> f[StoreProjects + 1 - k],
                   listId |-> IF k = 1 THEN Null ELSE 1,
                   label |-> Str_a, order |-> 0]]]

LegacyFiles ==
    {[kind |-> "ENOENT"], [kind |-> "not JSON"]}
    \cup {[kind |-> "db", doc |-> LegacyDb(ps, f)] :
            ps \in {<<>>, <<LegacyProject(1)>>, <<LegacyProject(StoreProjects), LegacyProject(1)>>},
            f \in [1..StoreProjects -> 1..(StoreProjects + 1)]}

InitMigrate ==
    /\ files \in {[p \in FileIds |-> Absent],
                  [p \in FileIds |-> IF p = StoreProjects
                                     THEN Stored(EmptyBoard(p, Str_a)) ELSE Absent]}
    /\ queue = <<>>
    /\ waiting = <<>>
    /\ tailErr = "none"
    /\ initState = "none"
    /\ last = [err |-> "none", own |-> TRUE]
    /\ lastRead = "none"
    /\ nextProj = StoreProjects + 1
    /\ nextList = StoreProjects + 1
    /\ nextItem = StoreProjects + 1
    /\ issued = 0
    /\ parsed = Unread
    /\ returned = Unread
    /\ clock = 0
    /\ stamps = NoStamps
    /\ legacy \in {[NoLegacy EXCEPT !.file = f] : f \in LegacyFiles}

\* migrateLegacyDbIfNeeded up to its first write (db.ts 166-194): it
\* returns if a project file exists, if db.json is missing or is not JSON,
\* or if it holds no project.
MigrateStart ==
    /\ initState = "running"
    /\ legacy.stage = "idle"
    /\ IF \/ listProjectFileIds # {}
          \/ legacy.file.kind # "db"
          \/ legacy.file.doc.projects = <<>>
       THEN /\ legacy' = [legacy EXCEPT !.stage = "done", !.runs = @ + 1]
            /\ initState' = "done"
       ELSE /\ legacy' = [legacy EXCEPT !.stage = "writing", !.runs = @ + 1,
                                        !.todo = legacy.file.doc.projects]
            /\ UNCHANGED initState
    /\ UNCHANGED <<files, queue, waiting, tailErr, last, lastRead,
                   nextProj, nextList, nextItem, issued, parsed, returned, clock, stamps>>

\* One turn of the loop (db.ts 195-229): the next project's board is
\* written to its file; every caller is still awaiting initPromise.
MigrateWrite ==
    /\ legacy.stage = "writing"
    /\ legacy.todo # <<>>
    /\ LET p == Head(legacy.todo)
       IN  files' = [files EXCEPT ![p.id] = Stored(LegacyBoard(legacy.file.doc, p))]
    /\ legacy' = [legacy EXCEPT !.todo = Tail(@)]
    /\ UNCHANGED <<queue, waiting, tailErr, initState, last, lastRead,
                   nextProj, nextList, nextItem, issued, parsed, returned, clock, stamps>>

\* The rename to db.legacy.json (db.ts 231-239), which may fail and leave
\* db.json where it is; initPromise is fulfilled.
MigrateRename ==
    /\ legacy.stage = "writing"
    /\ legacy.todo = <<>>
    /\ \E renamed \in BOOLEAN :
          legacy' = IF renamed
                    THEN [legacy EXCEPT !.stage = "done", !.backup = legacy.file,
                                        !.file = [kind |-> "ENOENT"]]
                    ELSE [legacy EXCEPT !.stage = "done"]
    /\ initState' = "done"
    /\ UNCHANGED <<files, queue, waiting, tailErr, last, lastRead,
                   nextProj, nextList, nextItem, issued, parsed, returned, clock, stamps>>

NextMigrate ==
    \/ QueueStep
    \/ MigrateStart
    \/ MigrateWrite
    \/ MigrateRename
    \/ \E p \in FileIds :
          /\ Room(MaxPending)
          /\ Enqueue(Call("updateProject", p, [patch |-> SetText(<<"c">>)]), StoreProjects)
    \/ \E p \in FileIds : Read(p)

SpecMigrate == InitMigrate /\ [][NextMigrate]_vars

\* The legacy data migration started from.
LegacySource == IF legacy.file.kind = "db" THEN legacy.file.doc ELSE legacy.backup.doc

LegacyIds(db) == {db.projects[k].id : k \in DOMAIN db.projects}

MigratedAsClaimed(db, dir) ==
    /\ \A k \in DOMAIN db.projects :
          LET id == db.projects[k].id
          IN  /\ dir[id].st = "ok"
              /\ dir[id].doc.project.id = id
              /\ Range(dir[id].doc.lists) = {l \in Range(db.lists) : l.projectId = id}
              /\ Len(dir[id].doc.lists) = Cardinality(Range(dir[id].doc.lists))
              /\ Range(dir[id].doc.items) = {it \in Range(db.items) : it.projectId = id}
              /\ Len(dir[id].doc.items) = Cardinality(Range(dir[id].doc.items))
    /\ \A p \in FileIds \ LegacyIds(db) : dir[p].st = "absent"

\* C23: migration starts at most once per store instance, however many
\* first calls are pending; it writes only if the directory holds no
\* project file and db.json holds projects, and then, by the time it ends,
\* each legacy project has its own document with exactly the legacy lists
\* and items whose projectId is its id, and there is no other document;
\* otherwise it ends without writing.  No call reads or writes a project
\* file before migration has ended.
C23_MigrationSplitsOnce ==
    [][/\ legacy.runs <= 1
       /\ legacy.stage = "done" => legacy' = legacy
       /\ (legacy.stage = "idle" /\ legacy'.stage # "idle")
             => /\ legacy.runs = 0
                /\ files' = files
                /\ legacy'.stage = "writing"
                      <=> /\ listProjectFileIds = {}
                          /\ legacy.file.kind = "db"
                          /\ legacy.file.doc.projects # <<>>
       /\ (legacy.stage = "writing" /\ legacy'.stage = "done")
             => MigratedAsClaimed(LegacySource', files')
       /\ legacy.stage # "done"
             => /\ lastRead' = lastRead
                /\ \A i \in DOMAIN queue : queue[i].pc \in {"queued", "load"}
       /\ (files' # files /\ legacy' = legacy)
             => \E i \in DOMAIN queue : Written(queue[i])]_vars

\* Migration has split a legacy file of two projects, one with a list and
\* an item and the other with neither, leaving out a list of a project
\* that is gone; a read that was waiting has then found its board.
C23_Witness ==
    /\ legacy.stage = "done"
    /\ legacy.runs = 1
    /\ lastRead = "board"
    /\ legacy.backup.kind = "db"
    /\ Len(legacy.backup.doc.projects) = 2
    /\ \E l \in Range(legacy.backup.doc.lists) : l.projectId \notin LegacyIds(legacy.backup.doc)
    /\ \E p, q \in StoredIds :
          /\ p # q
          /\ files[p].doc.lists # <<>>
          /\ files[p].doc.items # <<>>
          /\ files[q].doc.lists = <<>>
          /\ files[q].doc.items = <<>>

\* ------------------------------------------------------ read your writes
\* C24: a read never waits for the write queue and, once the store is
\* initialized, it finds at any moment the latest document whose write has
\* ended: while a mutation of project p is writing, getProjectBoard(p)
\* returns the board that mutation loaded (every mutation resolved so far)
\* or the one it is writing, and at no time does it end with an error
\* other than 'Project not found' for an absent project.
C24_ReadsReflectResolvedWrites ==
    \A p \in FileIds :
        initState = "done" =>
            LET board == ReadProjectFile(files[p])
            IN  /\ board.kind = "null" <=> files[p].st = "absent"
                /\ board.kind \in {"null", "board"}
                /\ \A i \in DOMAIN queue :
                      (queue[i].op \in MutateOps /\ Written(queue[i]) /\ queue[i].target = p)
                         => /\ board.kind = "board"
                            /\ board.doc \in {queue[i].loaded, queue[i].staged}

\* ------------------------------------------------------------- self-move
\* The position of an item among the members of its container, from 0.
PositionOf(doc, itemId) ==
    LET at == FindItem(doc, itemId)
    IN  Cardinality({k \in ItemIndexes(doc.items, doc.items[at].listId) :
                        OrderBefore(doc.items, k, at)})

IsSelfMove(doc, arg) ==
    /\ HasItem(doc, arg.itemId)
    /\ arg.toListId = ItemById(doc, arg.itemId).listId
    /\ arg.toIndex = PositionOf(doc, arg.itemId)

\* C25: moveItem of an item to the container it is in, at the position it
\* has, succeeds and writes the document it loaded: every item keeps its
\* container and its order, so every container keeps its member sequence.
C25_SelfMoveKeepsOrder ==
    \A i \in DOMAIN queue :
        queue[i].op = "moveItem" =>
            /\ (queue[i].pc = "load" /\ files[queue[i].pid].st = "ok"
                   /\ IsSelfMove(coerceProjectFile(files[queue[i].pid].doc), queue[i].arg))
                  => LET out == MutateOutcome(files[queue[i].pid], queue[i], nextList, nextItem)
                     IN  out.err = "none" /\ out.data = out.loaded
            /\ (Written(queue[i]) /\ IsSelfMove(queue[i].loaded, queue[i].arg))
                  => /\ queue[i].staged.items = queue[i].loaded.items
                     /\ queue[i].staged.lists = queue[i].loaded.lists

\* The second of two items of a list is being moved to where it is.
C25_Witness ==
    \E i \in DOMAIN queue :
        /\ queue[i].op = "moveItem"
        /\ queue[i].pc = "flush"
        /\ IsSelfMove(queue[i].loaded, queue[i].arg)
        /\ queue[i].arg.toListId # Null
        /\ queue[i].arg.toIndex = 1

\* ------------------------------------------------------------ deleteItem
ItemDeletedAsClaimed(before, itemId, after) ==
    LET from == ItemById(before, itemId).listId
    IN  /\ ItemIdsOf(after) = ItemIdsOf(before) \ {itemId}
        /\ Len(after.items) = Len(before.items) - 1
        /\ after.lists = before.lists
        /\ after.project = before.project
        /\ \A x \in ItemIdsOf(after) :
              LET was == ItemById(before, x)
                  now == ItemById(after, x)
              IN  /\ now.listId = was.listId
                  /\ now.label = was.label
                  /\ was.listId # from => now = was
                  /\ \A y \in ItemIdsOf(after) :
                        (was.listId = from /\ ItemById(before, y).listId = from
                            /\ was.order < ItemById(before, y).order)
                           => now.order < ItemById(after, y).order
        /\ DenseContainer(after, from)

Pushed(before, after) ==
    Len(after) = Len(before) + 1 /\ SubSeq(after, 1, Len(before)) = before

ListCreatedAsClaimed(before, after) ==
    LET made == after.lists[Len(after.lists)]
    IN  /\ Pushed(before.lists, after.lists)
        /\ after.items = before.items
        /\ made.order = Max({-1} \cup ListOrders(before)) + 1
        /\ \A o \in ListOrders(before) : o < made.order
        /\ before.lists = <<>> => made.order = 0

ItemCreatedAsClaimed(before, listId, after) ==
    LET made == after.items[Len(after.items)]
    IN  /\ Pushed(before.items, after.items)
        /\ after.lists = before.lists
        /\ made.listId = listId
        /\ made.order = Max({-1} \cup ItemOrders(before, listId)) + 1
        /\ \A o \in ItemOrders(before, listId) : o < made.order
        /\ ItemIndexes(before.items, listId) = {} => made.order = 0

\* C27: createList, and createItem into Loose or into an existing list,
\* write the document they loaded with one record pushed, whose order is
\* max(orders of the members of its container, -1) + 1: above every
\* member's, 0 in an empty container; every other record is as it was.
C27_CreatedIsLast ==
    \A i \in DOMAIN queue :
        LET c == queue[i]
        IN  /\ (c.op = "createList" /\ Written(c)) => ListCreatedAsClaimed(c.loaded, c.staged)
            /\ (c.op = "createItem" /\ Written(c))
                  => ItemCreatedAsClaimed(c.loaded, c.arg.listId, c.staged)
            /\ (/\ c.op \in {"createList", "createItem"}
                /\ c.pc = "load"
                /\ files[c.pid].st = "ok"
                /\ c.op = "createItem"
                      => (c.arg.listId = Null \/ HasList(files[c.pid].doc, c.arg.listId)))
                  => MutateOutcome(files[c.pid], c, nextList, nextItem).err = "none"

\* An item is being created in an empty list beside a Loose item: its
\* order is 0.
C27_Witness ==
    \E i \in DOMAIN queue :
        /\ queue[i].op = "createItem"
        /\ queue[i].pc = "flush"
        /\ queue[i].arg.listId # Null
        /\ Len(queue[i].loaded.items) = 1
        /\ queue[i].loaded.items[1].listId = Null
        /\ queue[i].staged.items[2].order = 0

\* ---------------------------------------------------- concurrent imports
\* A store that holds one project with a list and an item.  Callers import
\* its export, import a legacy db whose two projects share one id that no
\* file has, create projects, and rename or delete the stored project,
\* MaxPending calls at a time; the ids id() mints are StoreProjects..
\* StoreProjects + 1.
ForeignProject == StoreProjects + 2

Exported ==
    [project |-> [id |-> BurstProject, title |-> Str_a],
     lists |-> <<[id |-> 1, projectId |-> BurstProject, title |-> Str_a, order |-> 0]>>,
     items |-> <<[id |-> 1, projectId |-> BurstProject, listId |-> 1,
                  label |-> Str_a, order |-> 0]>>]

SharedIdDb ==
    [projects |-> <<[id |-> ForeignProject, title |-> Str_a],
                    [id |-> ForeignProject, title |-> <<"b">>]>>,
     lists |-> <<[id |-> 1, projectId |-> ForeignProject, title |-> Str_a, order |-> 0]>>,
     items |-> <<[id |-> 1, projectId |-> ForeignProject, listId |-> 1,
                  label |-> Str_a, order |-> 0]>>]

ImportDeferred ==
    {Call("createProject", Null, [title |-> Str_a]),
     Call("importProjectJsonText", Null, [payload |-> [shape |-> "project", board |-> Exported]]),
     Call("importProjectJsonText", Null,
          [payload |-> [shape |-> "legacy", board |-> NoDoc, db |-> SharedIdDb]])}

ImportCalls ==
    {Call("updateProject", BurstProject, [patch |-> SetText(<<"c">>)]),
     Call("deleteProject", BurstProject, [none |-> TRUE])}

InitImport ==
    /\ files = [p \in 1..ForeignProject |->
                  IF p = BurstProject THEN Stored(Exported) ELSE Absent]
    /\ queue = <<>>
    /\ waiting = <<>>
    /\ tailErr = "none"
    /\ initState = "done"
    /\ last = [err |-> "none", own |-> TRUE]
    /\ lastRead = "none"
    /\ nextProj = BurstProject + 1
    /\ nextList = Len(Exported.lists) + 1
    /\ nextItem = Len(Exported.items) + 1
    /\ issued = 0
    /\ AsideIdle

NextImport ==
    \/ QueueStep
    \/ EnqueueDeferred
    \/ \E c \in ImportDeferred : Room(MaxPending) /\ Defer(c, ForeignProject - 1)
    \/ \E c \in ImportCalls : Room(MaxPending) /\ Enqueue(c, ForeignProject - 1)

SpecImport == InitImport /\ [][NextImport]_vars

\* The ids an import closure has written under, the one it is writing
\* under included.
ImportedIds(c) == IF Written(c) THEN Append(c.ids, c.target) ELSE c.ids

\* C28: import closures run one at a time with every other write.  Each
\* board of an import is written under an id at which no document exists,
\* its own if that is free and a minted one otherwise, and which the same
\* import has not used; a document that exists changes only under a
\* mutation of that project or its deleteProject; and when the import
\* ends, its ids are pairwise distinct, one per board, each naming the
\* document of its board.
C28_ImportsSerializedNeverOverwrite ==
    [][/\ \A i \in DOMAIN queue :
             LET c == queue[i]
             IN  /\ c.pc # "queued" => \A j \in DOMAIN queue \ {i} : queue[j].pc = "queued"
                 /\ (c.op = "importProjectJsonText" /\ Written(c))
                       => /\ c.pc = "write" => files[c.target].st = "absent"
                          /\ c.target \notin Range(c.ids)
                          /\ c.staged.project.id = c.target
                          /\ c.target = ImportingBoard(c).project.id
                                \/ files[ImportingBoard(c).project.id].st = "ok"
                          /\ NoRepeats(ImportedIds(c))
                          /\ \A k \in DOMAIN c.ids : files[c.ids[k]].st = "ok"
                 /\ (c.op = "importProjectJsonText" /\ Commits(i))
                       => /\ Len(ImportedIds(c)) = Len(BoardsOf(c.arg.payload))
                          /\ \A k \in DOMAIN ImportedIds(c) :
                                LET doc == files'[ImportedIds(c)[k]].doc
                                    board == coerceProjectFile(BoardsOf(c.arg.payload)[k])
                                IN  /\ files'[ImportedIds(c)[k]].st = "ok"
                                    /\ doc.project.id = ImportedIds(c)[k]
                                    /\ doc.project.title = board.project.title
                                    /\ Len(doc.lists) = Len(board.lists)
                                    /\ Len(doc.items) = Len(board.items)
       /\ \A p \in DOMAIN files :
             (files[p].st = "ok" /\ files'[p] # files[p])
                => \E i \in DOMAIN queue :
                      /\ queue[i].pid = p
                      /\ queue[i].op \in MutateOps \cup {"deleteProject"}]_vars

\* The second project of the legacy db is being written under a minted id,
\* the first having taken the shared one, while an import of the stored
\* project's export waits behind it.
C28_Witness ==
    /\ Len(queue) = MaxPending
    /\ queue[1].op = "importProjectJsonText"
    /\ queue[1].arg.payload.shape = "legacy"
    /\ queue[1].pc = "flush"
    /\ queue[1].ids = <<ForeignProject>>
    /\ queue[1].target # ForeignProject
    /\ queue[2].op = "importProjectJsonText"
    /\ queue[2].arg.payload.shape = "project"
    /\ files[BurstProject].st = "ok"

\* Every list and item of the document names the document's project.
Tagged(doc) ==
    /\ \A k \in DOMAIN doc.lists : doc.lists[k].projectId = doc.project.id
    /\ \A k \in DOMAIN doc.items : doc.items[k].projectId = doc.project.id

\* C29: every persisted document, and every document a closure is about to
\* write, carries the id of its file as its project's id and as the
\* projectId of each of its lists and items; so does the board an import
\* writes under a minted id.
C29_ProjectIdPropagated ==
    /\ \A p \in DOMAIN files :
          files[p].st = "ok" => files[p].doc.project.id = p /\ Tagged(files[p].doc)
    /\ \A i \in DOMAIN queue :
          Written(queue[i])
             => /\ queue[i].staged.project.id = queue[i].target
                /\ Tagged(queue[i].staged)

\* A board with a list and an item is stored under an id an import minted.
C29_Witness ==
    \E p \in DOMAIN files :
        /\ p \notin {BurstProject, ForeignProject}
        /\ files[p].st = "ok"
        /\ files[p].doc.lists # <<>>
        /\ files[p].doc.items # <<>>

\* ------------------------------------------------- the title of a duplicate
\* '<base> (copy)' for n = 1, '<base> (copy n)' for n >= 2.
CopyName(base, n) ==
    IF n = 1 THEN base \o CopyOpen \o CopyClose
    ELSE base \o CopyOpen \o <<" ">> \o NumStr(n) \o CopyClose

SameTitle(s, t) == ToLowerCase(Trim(s)) = ToLowerCase(Trim(t))

TitleIsFree(doc, t) == \A k \in DOMAIN doc.lists : ~SameTitle(doc.lists[k].title, t)

CopyTitledAsClaimed(before, listId, after) ==
    LET base == Trim(before.lists[FindList(before, listId)].title)
        made == after.lists[Len(after.lists)]
    IN  /\ Len(after.lists) = Len(before.lists) + 1
        /\ TitleIsFree(before, made.title)
        /\ \E n \in 1..(Len(before.lists) + 1) :
              /\ made.title = CopyName(base, n)
              /\ \A m \in 1..(n - 1) : ~TitleIsFree(before, CopyName(base, m))

\* C30: duplicateList of an existing list ends, and the list it adds has a
\* title that no list of the loaded document has, capitals aside:
\* '<title> (copy)' if no list has it, else '<title> (copy N)' for the
\* least N >= 2 that no list has, N being at most the number of lists
\* plus one.
C30_CopyTitleIsFree ==
    \A i \in DOMAIN queue :
        queue[i].op = "duplicateList" =>
            /\ (queue[i].pc = "load" /\ files[queue[i].pid].st = "ok"
                   /\ HasList(files[queue[i].pid].doc, queue[i].arg.listId))
                  => LET out == MutateOutcome(files[queue[i].pid], queue[i], nextList, nextItem)
                     IN  /\ out.err = "none"
                         /\ CopyTitledAsClaimed(out.loaded, queue[i].arg.listId, out.data)
            /\ Written(queue[i])
                  => CopyTitledAsClaimed(queue[i].loaded, queue[i].arg.listId, queue[i].staged)

\* A list titled 'a' is being duplicated beside 'a (copy)' and
\* 'A (copy 2)': the clone is 'a (copy 3)'.
C30_Witness ==
    \E i \in DOMAIN queue :
        /\ queue[i].op = "duplicateList"
        /\ queue[i].pc = "flush"
        /\ queue[i].loaded.lists[FindList(queue[i].loaded, queue[i].arg.listId)].title = Str_a
        /\ queue[i].staged.lists[Len(queue[i].staged.lists)].title = CopyName(Str_a, 3)
        /\ \E k \in DOMAIN queue[i].loaded.lists :
              queue[i].loaded.lists[k].title = <<"A">> \o CopyOpen \o <<" ", "2">> \o CopyClose

\* ------------------------------------------------------ error attribution
\* C31: a call's promise is rejected only with an error its own closure
\* raised (its validation, its not-found check, its I/O): the error of the
\* call that settled last is never one inherited from a call queued before
\* it.
C31_ErrorsAreOwn == last.err # "none" => last.own

\* ------------------------------------------------------- order of effect
\* One caller invokes createList / createItem on one project back to back,
\* without awaiting, and deleteProject after them; the k-th call's title or
\* label is the numeral of k. At most MaxFifo calls come before the delete.
MaxFifo == 3

FifoOps == {"createList", "createItem"}

FifoCall(op, k) ==
    IF op = "createList"
    THEN Call("createList", BurstProject, [title |-> NumStr(k)])
    ELSE Call("createItem", BurstProject, [listId |-> Null, label |-> NumStr(k)])

DeleteInvoked ==
    \/ files[BurstProject].st = "absent"
    \/ \E i \in DOMAIN queue : queue[i].op = "deleteProject"

InitFifo ==
    /\ files = [p \in FileIds |-> IF p = BurstProject THEN Stored(EmptyBoard(p, Str_a)) ELSE Absent]
    /\ queue = <<>>
    /\ waiting = <<>>
    /\ tailErr = "none"
    /\ initState = "none"
    /\ last = [err |-> "none", own |-> TRUE]
    /\ lastRead = "none"
    /\ nextProj = BurstProject + 1
    /\ nextList = 1
    /\ nextItem = 1
    /\ issued = 0
    /\ AsideIdle

\* A chain that puts the new closure in front of the pending ones.
IssueFifo_front(op) ==
    /\ issued < MaxFifo
    /\ ~DeleteInvoked
    /\ issued' = issued + 1
    /\ queue' = <<FifoCall(op, issued + 1)>> \o queue
    /\ UNCHANGED <<files, waiting, tailErr, initState, last, lastRead, nextProj, nextList, nextItem, aside>>

\* createList / createItem: mutateProject chains the closure behind the
\* pending ones in the caller's own turn (db.ts 94, 456, 609).
IssueFifo(op) ==
    /\ issued < MaxFifo
    /\ ~DeleteInvoked
    /\ issued' = issued + 1
    /\ queue' = Append(queue, FifoCall(op, issued + 1))
    /\ UNCHANGED <<files, waiting, tailErr, initState, last, lastRead, nextProj, nextList, nextItem, aside>>

\* deleteProject chains its closure the same way (db.ts 410).
IssueDeleteProject ==
    /\ ~DeleteInvoked
    /\ queue' = Append(queue, Call("deleteProject", BurstProject, [none |-> TRUE]))
    /\ UNCHANGED <<files, waiting, tailErr, initState, last, lastRead,
                   nextProj, nextList, nextItem, issued, aside>>

NextFifo ==
    \/ QueueStep
    \/ Migrate
    \/ \E op \in FifoOps : IssueFifo(op)
    \/ IssueDeleteProject
    \/ Read(BurstProject)

SpecFifo == InitFifo /\ [][NextFifo]_vars

\* The invocation number a title or label stands for.
TicketOf(text) == CHOOSE k \in 1..MaxFifo : NumStr(k) = text

TicketsIn(doc) ==
    {TicketOf(doc.lists[k].title) : k \in DOMAIN doc.lists}
    \cup {TicketOf(doc.items[k].label) : k \in DOMAIN doc.items}

\* The calls whose closure has not written yet, by invocation number.
TicketsPending ==
    {TicketOf(OwnText(queue[i])) : i \in {j \in DOMAIN queue : queue[j].op \in FifoOps}}

\* Within the lists, and within the Loose items, a larger order means a
\* later invocation.
OrdersFollowInvocation(doc) ==
    /\ \A j, k \in DOMAIN doc.lists :
          doc.lists[j].order < doc.lists[k].order
             <=> TicketOf(doc.lists[j].title) < TicketOf(doc.lists[k].title)
    /\ \A j, k \in DOMAIN doc.items :
          doc.items[j].order < doc.items[k].order
             <=> TicketOf(doc.items[j].label) < TicketOf(doc.items[k].label)

\* C32: calls made through mutateProject and deleteProject take effect in
\* the order they were invoked. While the project's file is a whole
\* document, the calls applied to it are the first ones invoked and every
\* pending one was invoked after them; lists and items created back to
\* back have order values that follow the invocation order; and when
\* deleteProject's closure is about to unlink the file, every call invoked
\* before it has been applied, so that nothing is pending once the file is
\* gone.
C32_AppliedInInvocationOrder ==
    /\ files[BurstProject].st = "ok" =>
          LET doc == files[BurstProject].doc
          IN  /\ OrdersFollowInvocation(doc)
              /\ \A a \in TicketsIn(doc) : \A u \in TicketsPending : a < u
              /\ TicketsIn(doc) \cup TicketsPending = 1..issued
              /\ Cardinality(TicketsIn(doc)) = Len(doc.lists) + Len(doc.items)
    /\ \A i \in DOMAIN queue :
          (queue[i].op = "deleteProject" /\ queue[i].pc = "load") =>
              /\ files[BurstProject].st = "ok"
              /\ TicketsIn(files[BurstProject].doc) = 1..issued
              /\ Len(queue) = 1
    /\ files[BurstProject].st = "absent" => (queue = <<>> /\ last.err = "none")

\* createList, createItem, createList and deleteProject were invoked back
\* to back; the delete is about to unlink a file that holds lists '1' and
\* '3' at orders 0 and 1 and item '2'.
C32_Witness ==
    /\ issued = 3
    /\ files[BurstProject].st = "ok"
    /\ \E i \in DOMAIN queue : queue[i].op = "deleteProject" /\ queue[i].pc = "load"
    /\ LET doc == files[BurstProject].doc
       IN  /\ Len(doc.lists) = 2
           /\ Len(doc.items) = 1
           /\ \E j, k \in DOMAIN doc.lists :
                 /\ doc.lists[j].title = NumStr(1) /\ doc.lists[j].order = 0
                 /\ doc.lists[k].title = NumStr(3) /\ doc.lists[k].order = 1
           /\ doc.items[1].label = NumStr(2)

\* ------------------------------------------------------ moving on a board
\* A project with two lists and six items: three in list 1, two in list 2
\* and a Loose one, item k labelled with the numeral of k. One caller moves
\* items about, MaxMoves times, to either list or to Loose.
MaxMoves == 1

MoveHomes == <<1, 1, 1, 2, 2, Null>>
MoveTargets == {Null} \cup {MoveHomes[k] : k \in DOMAIN MoveHomes}
MoveIndexes == 0..Len(MoveHomes)

MoveBoard ==
    [Board(2) EXCEPT !.items =
        [k \in DOMAIN MoveHomes |->
            [id |-> k, projectId |-> BurstProject, listId |-> MoveHomes[k],
             label |-> NumStr(k),
             order |-> Cardinality({j \in 1..(k - 1) : MoveHomes[j] = MoveHomes[k]})]]]

InitMove ==
    /\ files = [p \in FileIds |-> IF p = BurstProject THEN Stored(MoveBoard) ELSE Absent]
    /\ queue = <<>>
    /\ waiting = <<>>
    /\ tailErr = "none"
    /\ initState = "done"
    /\ last = [err |-> "none", own |-> TRUE]
    /\ lastRead = "none"
    /\ nextProj = BurstProject + 1
    /\ nextList = 3
    /\ nextItem = Len(MoveHomes) + 1
    /\ issued = 0
    /\ AsideIdle

IssueMove(itemId, toListId, toIndex) ==
    /\ Room(1)
    /\ issued < MaxMoves
    /\ issued' = issued + 1
    /\ queue' = Append(queue, Call("moveItem", BurstProject,
                          [itemId |-> itemId, toListId |-> toListId, toIndex |-> toIndex]))
    /\ UNCHANGED <<files, waiting, tailErr, initState, last, lastRead,
                   nextProj, nextList, nextItem, aside>>

NextMove ==
    \/ QueueStep
    \/ \E it \in DOMAIN MoveHomes, l \in MoveTargets, k \in MoveIndexes : IssueMove(it, l, k)

SpecMove == InitMove /\ [][NextMove]_vars

\* Items a and b stand in the same order in `after` as in `before`.
SameRelativeOrder(before, after, a, b) ==
    ItemById(before, a).order < ItemById(before, b).order
       => ItemById(after, a).order < ItemById(after, b).order

ConservedAsClaimed(before, arg, after) ==
    LET from == ItemById(before, arg.itemId).listId
        rest == ItemIdsOf(before) \ {arg.itemId}
        in(l) == {a \in rest : ItemById(before, a).listId = l}
    IN  /\ after.project = before.project
        /\ after.lists = before.lists
        /\ Len(after.items) = Len(before.items)
        /\ ItemIdsOf(after) = ItemIdsOf(before)
        /\ \A a \in ItemIdsOf(before) :
              /\ ItemById(after, a).label = ItemById(before, a).label
              /\ ItemById(after, a).projectId = ItemById(before, a).projectId
        /\ ItemById(after, arg.itemId).listId = arg.toListId
        /\ \A a \in rest : ItemById(after, a).listId = ItemById(before, a).listId
        /\ \A a, b \in in(arg.toListId) : SameRelativeOrder(before, after, a, b)
        /\ \A a, b \in in(from) : SameRelativeOrder(before, after, a, b)
        /\ \A a \in rest :
              ItemById(before, a).listId \notin {from, arg.toListId}
                 => ItemById(after, a).order = ItemById(before, a).order

\* C33: a moveItem that succeeds conserves the board: the project, the
\* lists, the set of item ids and every item's label are as they were, the
\* moved item is the only one whose listId changes, the other items of the
\* destination keep their relative order, so do the items left in the
\* source, and the items of every other container keep their order values.
C33_MoveItemConservesBoard ==
    \A i \in DOMAIN queue :
        queue[i].op = "moveItem" =>
            /\ (queue[i].pc = "load" /\ files[queue[i].pid].st = "ok")
                  => LET out == MutateOutcome(files[queue[i].pid], queue[i], nextList, nextItem)
                     IN  out.err = "none"
                            => ConservedAsClaimed(out.loaded, queue[i].arg, out.data)
            /\ Written(queue[i])
                  => ConservedAsClaimed(queue[i].loaded, queue[i].arg, queue[i].staged)

\* An item of a list that holds two more is being moved between the two
\* items of another list, while a third container holds an item.
C33_Witness ==
    \E i \in DOMAIN queue :
        LET c == queue[i]
            from == ItemById(c.loaded, c.arg.itemId).listId
        IN  /\ c.op = "moveItem"
            /\ c.pc = "flush"
            /\ from # c.arg.toListId
            /\ c.arg.toIndex = 1
            /\ Cardinality(OthersIn(c.loaded, c.arg.toListId, c.arg.itemId)) = 2
            /\ Cardinality(OthersIn(c.loaded, from, c.arg.itemId)) = 2
            /\ \E k \in DOMAIN c.loaded.items :
                  c.loaded.items[k].listId \notin {from, c.arg.toListId}
            /\ ItemById(c.staged, c.arg.itemId).order = 1

\* ----------------------------------------------------- what an update leaves
\* The board with items again, its updatedAt values on the clock: one
\* caller updates the project, a list or an item, MaxMut times, with no
\* patch, a new text, or a blank one; some calls name a list or an item
\* that does not exist.
UpdatePatches == {NoPatch, SetText(Blank), SetText(<<" ", "z">>)}

UpdateCalls ==
    {Call("updateProject", BurstProject, [patch |-> x]) : x \in UpdatePatches}
    \cup {Call("updateList", BurstProject, [listId |-> l, patch |-> x]) :
            l \in {2, StrayList}, x \in UpdatePatches}
    \cup {Call("updateItem", BurstProject, [itemId |-> i, patch |-> x]) :
            i \in {1, BoardItems + 1}, x \in UpdatePatches}

NextUpdate ==
    \E c \in UpdateCalls, d \in Ticks, e \in Ticks : Mutate(c, clock + d, clock + d + e)

SpecUpdate == InitClock /\ [][NextUpdate]_vars

ListById(doc, listId) == doc.lists[FindList(doc, listId)]

\* The text a patch leaves in a field that held `old`.
Patched(patch, old) == IF patch.has THEN Trim(patch.text) ELSE old

UpdatedAsClaimed(c, before, after, st, st2) ==
    /\ after.project.id = before.project.id
    /\ after.project.title =
          (IF c.op = "updateProject" THEN Patched(c.arg.patch, before.project.title)
           ELSE before.project.title)
    /\ Len(after.lists) = Len(before.lists)
    /\ ListIdsOf(after) = ListIdsOf(before)
    /\ \A l \in ListIdsOf(before) :
          IF c.op = "updateList" /\ l = c.arg.listId
          THEN ListById(after, l) =
                  [ListById(before, l) EXCEPT !.title = Patched(c.arg.patch, @)]
          ELSE /\ ListById(after, l) = ListById(before, l)
               /\ st2.lists[l] = st.lists[l]
    /\ Len(after.items) = Len(before.items)
    /\ ItemIdsOf(after) = ItemIdsOf(before)
    /\ \A it \in ItemIdsOf(before) :
          IF c.op = "updateItem" /\ it = c.arg.itemId
          THEN ItemById(after, it) =
                  [ItemById(before, it) EXCEPT !.label = Patched(c.arg.patch, @)]
          ELSE /\ ItemById(after, it) = ItemById(before, it)
               /\ st2.items[it] = st.items[it]

\* C34: updateProject, updateList and updateItem with a patch of the title
\* or label change, in the document they write, that text of the record
\* they name and nothing else: its id, projectId, listId and order are as
\* they were, and so is every other record; of the updatedAt values only
\* the record's own and the project's are assigned.
C34_UpdateChangesOnlyText ==
    [][(issued' # issued /\ last'.err = "none") =>
          \A c \in UpdateCalls :
              (\E d \in Ticks : clock' - clock - d \in Ticks /\ Mutate(c, clock + d, clock'))
                 => UpdatedAsClaimed(c, files[c.pid].doc, files'[c.pid].doc, stamps, stamps')]_vars

\* Item 1 has been given the label 'z' at time 1: the other items have the
\* labels and the updatedAt they started with.
C34_Witness ==
    /\ issued = 1
    /\ last.err = "none"
    /\ files[BurstProject].st = "ok"
    /\ LET doc == files[BurstProject].doc
       IN  /\ ItemById(doc, 1).label = <<"z">>
           /\ ItemById(doc, 1).listId = 1
           /\ \A it \in ItemIdsOf(doc) \ {1} :
                 /\ ItemById(doc, it).label = ItemById(BoardWithItems, it).label
                 /\ stamps.items[it] = 0
           /\ doc.lists = BoardWithItems.lists
    /\ stamps.items[1] = 1
    /\ stamps.project >= 1

\* ------------------------------------------------------ two projects
\* Two stored projects: the first holds lists 1 and 3 and item 1, the other
\* lists 2 and 3 and item 2 (list 3 came with an import of a copy, which
\* keeps the ids of its lists). One caller mutates either project, MaxIso
\* times, naming the lists and items of both.
MaxIso == 1

OtherProject == StoreProjects

IsoBoard(p, listId, itemId) ==
    [project |-> [id |-> p, title |-> Str_a],
     lists |-> <<[id |-> listId, projectId |-> p, title |-> Str_a, order |-> 0],
                 [id |-> 3, projectId |-> p, title |-> Str_a, order |-> 1]>>,
     items |-> <<[id |-> itemId, projectId |-> p, listId |-> listId,
                  label |-> Str_a, order |-> 0]>>]

IsoFiles ==
    [p \in FileIds |->
        CASE p = BurstProject -> Stored(IsoBoard(p, 1, 1))
          [] p = OtherProject -> Stored(IsoBoard(p, 2, 2))
          [] OTHER            -> Absent]

IsoLists == {1, 2, 3}
IsoItems == {1, 2}

IsoCalls ==
    UNION {
      {Call("updateProject", p, [patch |-> x]) : x \in {SetText(Blank), SetText(<<"z">>)}}
      \cup {Call("createList", p, [title |-> <<"z">>])}
      \cup {Call("updateList", p, [listId |-> l, patch |-> SetText(<<"z">>)]) : l \in IsoLists}
      \cup {Call("deleteList", p, [listId |-> l]) : l \in IsoLists}
      \cup {Call("duplicateList", p, [listId |-> l]) : l \in IsoLists}
      \cup {Call("reorderLists", p, [listIdsInOrder |-> s]) : s \in {<<3, 2, 1>>}}
      \cup {Call("createItem", p, [listId |-> l, label |-> <<"z">>]) : l \in {Null} \cup IsoLists}
      \cup {Call("updateItem", p, [itemId |-> i, patch |-> SetText(<<"z">>)]) : i \in IsoItems}
      \cup {Call("deleteItem", p, [itemId |-> i]) : i \in IsoItems}
      \cup {Call("moveItem", p, [itemId |-> i, toListId |-> l, toIndex |-> 0]) :
              i \in IsoItems, l \in {Null} \cup IsoLists}
      : p \in {BurstProject, OtherProject}}

InitIso ==
    /\ files = IsoFiles
    /\ queue = <<>>
    /\ waiting = <<>>
    /\ tailErr = "none"
    /\ initState = "done"
    /\ last = [err |-> "none", own |-> TRUE]
    /\ lastRead = "none"
    /\ nextProj = StoreProjects + 1
    /\ nextList = 4
    /\ nextItem = 3
    /\ issued = 0
    /\ AsideIdle

IssueIso(c) ==
    /\ Room(1)
    /\ issued < MaxIso
    /\ issued' = issued + 1
    /\ queue' = Append(queue, c)
    /\ UNCHANGED <<files, waiting, tailErr, initState, last, lastRead,
                   nextProj, nextList, nextItem, aside>>

NextIso ==
    \/ QueueStep
    \/ \E c \in IsoCalls : IssueIso(c)

SpecIso == InitIso /\ [][NextIso]_vars

\* The list and the item a call names, Null if it names none.
NamedList(c) ==
    CASE c.op \in {"updateList", "deleteList", "duplicateList", "createItem"} -> c.arg.listId
      [] c.op = "moveItem" -> c.arg.toListId
      [] OTHER -> Null

NamedItem(c) == IF c.op \in {"updateItem", "deleteItem", "moveItem"} THEN c.arg.itemId ELSE Null

OtherDocs(p) == {files[q].doc : q \in StoredIds \ {p}}

\* The item the call names is not in its own project: moveItem looks the
\* item up before the list.
MissingItem(c) == NamedItem(c) # Null /\ NamedItem(c) \notin ItemIdsOf(files[c.pid].doc)

\* The call names an item, or a list, that another project holds and its
\* own project does not.
ForeignItem(c) ==
    /\ MissingItem(c)
    /\ \E doc \in OtherDocs(c.pid) : NamedItem(c) \in ItemIdsOf(doc)

ForeignList(c) ==
    /\ NamedList(c) # Null
    /\ NamedList(c) \notin ListIdsOf(files[c.pid].doc)
    /\ \E doc \in OtherDocs(c.pid) : NamedList(c) \in ListIdsOf(doc)

\* C35: a mutation on project P, whether it ends well or with an error,
\* changes no file but P's: every other project's document stays as it
\* was; and a call on P that names an item or a list held by another
\* project and not by P ends with 'Item not found' or 'List not found'
\* and writes nothing.
C35_ProjectsAreIsolated ==
    [][/\ \A q \in FileIds :
             files'[q] # files[q]
                => \E i \in DOMAIN queue :
                      /\ queue[i].op \in MutateOps
                      /\ queue[i].pid = q
                      /\ Written(queue[i])
                      /\ (i \notin DOMAIN queue' \/ queue'[i] # queue[i])
       /\ \A i \in DOMAIN queue :
             LET c == queue[i]
             IN  (/\ c.op \in MutateOps
                  /\ c.pc = "load"
                  /\ files[c.pid].st = "ok"
                  /\ ForeignItem(c) \/ ForeignList(c)
                  /\ queue' # queue)
                    => /\ queue' = Without(queue, i)
                       /\ last' = [err |-> IF MissingItem(c) THEN "Item not found"
                                           ELSE "List not found",
                                   own |-> TRUE]
                       /\ files' = files]_vars

\* List 3 of the first project, an id the other project holds too, is
\* being retitled 'z': the other project's file is as it was, its list 3
\* titled 'a'.
C35_Witness ==
    /\ queue # <<>>
    /\ queue[1].op = "updateList"
    /\ queue[1].pid = BurstProject
    /\ queue[1].arg.listId = 3
    /\ queue[1].pc = "flush"
    /\ ListById(queue[1].staged, 3).title = <<"z">>
    /\ files[OtherProject] = IsoFiles[OtherProject]
    /\ ListById(files[OtherProject].doc, 3).title = Str_a

=============================================================================
